---- MODULE Spec2Model ----
(***************************************************************************)
(* A model of the daemon/session subsystem of mcp-launchpad:               *)
(*   - UnixIPCServer.start()/stop() racing on one socket path (ipc.py),    *)
(*   - UnixIPCServer._handle_client serving accepted connections (ipc.py), *)
(*   - SessionClient requests and daemon start-up (session.py).            *)
(* Each part has its own specification over the shared variables.          *)
(***************************************************************************)
EXTENDS Integers, Sequences, FiniteSets, TLC

\* Number of daemon processes that may call UnixIPCServer.start().
NumDaemons == 2

\* Number of client connections one server has open at a time.
NumConns == 1

\* Number of frames a client may write on one connection.
MaxFrames == 2

\* DAEMON_START_TIMEOUT counted in retry delays (DAEMON_CONNECT_RETRY_DELAY).
TimeoutTicks == 2

\* Children that a Popen of the Session Client can bring to life.
MaxChildren == 1

\* Connections one server has open side by side.
NumParallel == 2

\* Entries in a server's env mapping.
MaxEnv == 1

\* CONNECTION_TIMEOUT counted in clock ticks.
ConnTicks == 2

VARIABLES
    \* ---- the socket path and the daemons' servers (ipc.py) ----
    sockFile,      \* the socket path: {} = no file, {o} = the file created by o's bind
    listening,     \* listening[d]: d's asyncio server has a bound, listening socket
    spc,           \* spc[d]: where daemon d stands in start()/stop()
    entryFile,     \* ghost: what d's exists() check at line 108 saw behind the path
    entryLive,     \* ghost: whether a listener was behind the path at that check
    probeRes,      \* ghost: outcome of d's probe connect ("none" before it)
    startTouched,  \* ghost: d's start() removed or created a file at the path
    unlinked,      \* ghost: d's line 116 removed a file
    solo,          \* ghost: no other daemon changed the path or a listener since d entered start()
    clobbered,     \* ghost: some start() removed the file of a daemon that was listening behind it
    \* ---- connections served by one UnixIPCServer (ipc.py, _handle_client) ----
    serving,       \* the asyncio server accepts connections
    cconn,         \* cconn[c]: the client's end: "idle", "open" or "closed"
    c2s,           \* c2s[c]: frames the client wrote that the server has not consumed
    s2c,           \* s2c[c]: messages the server wrote that reached the client
    hpc,           \* hpc[c]: where the _handle_client task of connection c stands
    hexc,          \* hexc[c]: the exception caught at line 159 (NoExc if none)
    sclosed,       \* sclosed[c]: the server closed its writer (line 174)
    nRead,         \* ghost: messages read_message took off connection c
    nHandled,      \* ghost: times the handler was invoked for connection c
    path,          \* ghost: the path _handle_client took on connection c
    errsBefore,    \* ghost: a handler had already raised when c was accepted
    errSeen,       \* ghost: a handler has raised on some connection
    handledFrame,  \* ghost: the frame the handler of connection c was invoked on
    droppedMsg,    \* ghost: a complete message of c was discarded unread at close
    \* ---- the Session Client and the endpoint files it looks at (session.py) ----
    pidFile,       \* the pid file: {} = no file, {text} = a file with that content
    dstate,        \* dstate[d]: daemon process d is "unborn", "running" or "dead"
    logFile,       \* the daemon log file: "absent", "empty" or "lines"
    pending,       \* children started by Popen that have not begun to run
    reqSrv,        \* what the daemon did on the client's request connection
    cl,            \* the client's position and local variables
    gh,            \* ghost: what the client did and what was true when it looked
    \* ---- the legacy endpoint and its cleanup (session side) ----
    lg,            \* the legacy endpoint's files and the cleanup routine's position
    \* ---- one ConnectionManager.connect() scope (connection.py) ----
    cn,            \* the configuration, the ambient environment and the scope's position
    \* ---- messages as bytes, and a stream of frames being read (ipc.py) ----
    wr,            \* the message or stream at hand and the reader's position
    \* ---- one _start_daemon call and the daemon it starts (session.py) ----
    sp,            \* the environments, the command and the endpoints resolved
    \* ---- one connection served by WindowsIPCServer (ipc.py) ----
    pp,            \* the pipe, the request written to it and the server's position
    \* ---- the tool cache and one refresh() call (ToolCache) ----
    tc             \* the cache files, the config file's mtime, the clock and the call's position

startVars == <<sockFile, listening, spc, entryFile, entryLive, probeRes,
               startTouched, unlinked, solo, clobbered>>

serveVars == <<serving, cconn, c2s, s2c, hpc, hexc, sclosed, nRead, nHandled,
               path, errsBefore, errSeen, handledFrame, droppedMsg>>

clientVars == <<pidFile, dstate, logFile, pending, reqSrv, cl, gh>>

\* The state of the parts that stand beside the daemon endpoint.
sideVars == <<lg, cn, wr, sp, pp, tc>>

vars == <<startVars, serveVars, clientVars, sideVars>>

\* What the steps of start()/stop() leave alone, and what the steps on a
\* connection leave alone.
nonStartVars == <<serveVars, clientVars, sideVars>>
nonServeVars == <<startVars, clientVars, sideVars>>

Daemons == 1..NumDaemons

\* A daemon of an earlier run that exited without stop(): it never listens,
\* and a file it bound is a stale leftover.
Previous == NumDaemons + 1

Owners == Daemons \cup {Previous}

\* States of a daemon inside start() (lines 105-120).
InStart == {"probe", "unlink", "server_rm", "server_bind"}

\* A listener is behind the path: the path names a socket whose owner listens.
ListenerBehind(file) == \E o \in file : o \in Daemons /\ listening[o]

\* Outcomes the probe's open_unix_connection (wait_for 1.0s) can have.
ProbeOutcomes(file) ==
    IF file = {} THEN {"enoent"}
    ELSE IF ListenerBehind(file) THEN {"connected", "timeout"}
    ELSE {"refused"}

\* Mutant of IsSocketInUse: a refused connect counts as "in use" too.
IsSocketInUse_AnyFile(outcome) == outcome \in {"connected", "refused"}

\* _is_socket_in_use: True only when the connect succeeded.
IsSocketInUse(outcome) == outcome = "connected"

\* Ghost bookkeeping shared by every step of daemon d that changes the path
\* or a listener: the other daemons that have entered start() are no longer solo.
NotSolo(d) == [x \in Daemons |-> IF x # d /\ spc[x] # "new" THEN FALSE ELSE solo[x]]

\* start(), line 108: socket_path.exists().
StartCheckExists(d) ==
    /\ UNCHANGED nonStartVars
    /\ spc[d] = "new"
    /\ spc' = [spc EXCEPT ![d] = IF sockFile # {} THEN "probe" ELSE "server_rm"]
    /\ entryFile' = [entryFile EXCEPT ![d] = sockFile]
    /\ entryLive' = [entryLive EXCEPT ![d] = ListenerBehind(sockFile)]
    /\ solo' = [solo EXCEPT ![d] = TRUE]
    /\ UNCHANGED <<sockFile, listening, probeRes, startTouched, unlinked, clobbered>>

\* start(), lines 109-113 with _is_socket_in_use, lines 122-139.
ProbeSocket(d) ==
    /\ UNCHANGED nonStartVars
    /\ spc[d] = "probe"
    /\ \E o \in ProbeOutcomes(sockFile) :
        /\ probeRes' = [probeRes EXCEPT ![d] = o]
        /\ spc' = [spc EXCEPT ![d] = IF IsSocketInUse(o) THEN "conflict" ELSE "unlink"]
    /\ UNCHANGED <<sockFile, listening, entryFile, entryLive, startTouched,
                   unlinked, solo, clobbered>>

\* start(), line 116: socket_path.unlink(); FileNotFoundError when the file is gone.
UnlinkStale(d) ==
    /\ UNCHANGED nonStartVars
    /\ spc[d] = "unlink"
    /\ IF sockFile = {}
       THEN /\ spc' = [spc EXCEPT ![d] = "failed"]
            /\ UNCHANGED <<sockFile, startTouched, unlinked, solo, clobbered>>
       ELSE /\ spc' = [spc EXCEPT ![d] = "server_rm"]
            /\ sockFile' = {}
            /\ startTouched' = [startTouched EXCEPT ![d] = TRUE]
            /\ unlinked' = [unlinked EXCEPT ![d] = TRUE]
            /\ clobbered' = (clobbered \/ ListenerBehind(sockFile))
            /\ solo' = NotSolo(d)
    /\ UNCHANGED <<listening, entryFile, entryLive, probeRes>>

\* start(), lines 118-120, first half of asyncio.start_unix_server: the event
\* loop's create_unix_server removes a socket file found at the path.
ServerRemoveExisting(d) ==
    /\ UNCHANGED nonStartVars
    /\ spc[d] = "server_rm"
    /\ spc' = [spc EXCEPT ![d] = "server_bind"]
    /\ IF sockFile = {}
       THEN UNCHANGED <<sockFile, startTouched, solo, clobbered>>
       ELSE /\ sockFile' = {}
            /\ startTouched' = [startTouched EXCEPT ![d] = TRUE]
            /\ clobbered' = (clobbered \/ ListenerBehind(sockFile))
            /\ solo' = NotSolo(d)
    /\ UNCHANGED <<listening, entryFile, entryLive, probeRes, unlinked>>

\* start(), lines 118-120, second half: bind and listen; EADDRINUSE when a
\* file is at the path again.
ServerBind(d) ==
    /\ UNCHANGED nonStartVars
    /\ spc[d] = "server_bind"
    /\ IF sockFile # {}
       THEN /\ spc' = [spc EXCEPT ![d] = "failed"]
            /\ UNCHANGED <<sockFile, listening, startTouched, solo>>
       ELSE /\ spc' = [spc EXCEPT ![d] = "listening"]
            /\ sockFile' = {d}
            /\ listening' = [listening EXCEPT ![d] = TRUE]
            /\ startTouched' = [startTouched EXCEPT ![d] = TRUE]
            /\ solo' = NotSolo(d)
    /\ UNCHANGED <<entryFile, entryLive, probeRes, unlinked, clobbered>>

\* stop(), lines 143-145: close the server.
StopClose(d) ==
    /\ UNCHANGED nonStartVars
    /\ spc[d] = "listening"
    /\ spc' = [spc EXCEPT ![d] = "closed"]
    /\ listening' = [listening EXCEPT ![d] = FALSE]
    /\ solo' = NotSolo(d)
    /\ UNCHANGED <<sockFile, entryFile, entryLive, probeRes, startTouched,
                   unlinked, clobbered>>

\* stop(), lines 146-147: unlink the path if it exists.
StopUnlink(d) ==
    /\ UNCHANGED nonStartVars
    /\ spc[d] = "closed"
    /\ spc' = [spc EXCEPT ![d] = "stopped"]
    /\ sockFile' = {}
    /\ solo' = IF sockFile # {} THEN NotSolo(d) ELSE solo
    /\ UNCHANGED <<listening, entryFile, entryLive, probeRes, startTouched,
                   unlinked, clobbered>>

InitStartVars ==
    /\ sockFile \in {{}, {Previous}}
    /\ listening = [d \in Daemons |-> FALSE]
    /\ spc = [d \in Daemons |-> "new"]
    /\ entryFile = [d \in Daemons |-> {}]
    /\ entryLive = [d \in Daemons |-> FALSE]
    /\ probeRes = [d \in Daemons |-> "none"]
    /\ startTouched = [d \in Daemons |-> FALSE]
    /\ unlinked = [d \in Daemons |-> FALSE]
    /\ solo = [d \in Daemons |-> TRUE]
    /\ clobbered = FALSE

\* The connection variables at rest, for the specifications that leave them alone.
ServeIdle ==
    /\ serving = FALSE
    /\ cconn = <<>> /\ c2s = <<>> /\ s2c = <<>> /\ hpc = <<>> /\ hexc = <<>>
    /\ sclosed = <<>> /\ nRead = <<>> /\ nHandled = <<>>
    /\ path = <<>> /\ errsBefore = <<>> /\ errSeen = FALSE
    /\ handledFrame = <<>> /\ droppedMsg = <<>>

\* The legacy endpoint with no files, its cleanup never run.
LegacyIdle ==
    [pc |-> "idle", runs |-> 0, paths |-> "unset", pid |-> {}, sock |-> FALSE,
     pid0 |-> {}, sock0 |-> FALSE, seen |-> 0, sawLive |-> FALSE, sig |-> {}]

\* No legacy cleanup and no connect() scope in progress.
SideIdle == lg = LegacyIdle /\ cn = <<>> /\ wr = <<>> /\ sp = <<>> /\ pp = <<>> /\ tc = <<>>

\* The client and the endpoint files at rest.
SessionIdle ==
    /\ pidFile = {} /\ dstate = <<>> /\ logFile = "absent" /\ pending = 0
    /\ reqSrv = "none" /\ cl = <<>> /\ gh = <<>>

ClientIdle == SessionIdle /\ SideIdle

InitStart == InitStartVars /\ ServeIdle /\ ClientIdle

NextStart ==
    \E d \in Daemons :
        \/ StartCheckExists(d)
        \/ ProbeSocket(d)
        \/ UnlinkStale(d)
        \/ ServerRemoveExisting(d)
        \/ ServerBind(d)
        \/ StopClose(d)
        \/ StopUnlink(d)

SpecStart == InitStart /\ [][NextStart]_vars

\* stop(), lines 143-147, on an instance whose server is None (start() was
\* never called, or it raised): nothing to close, and the path is unlinked
\* if it exists.
StopUnstarted(d) ==
    /\ UNCHANGED nonStartVars
    /\ spc[d] \in {"new", "conflict", "failed"}
    /\ spc' = [spc EXCEPT ![d] = "stopped"]
    /\ sockFile' = {}
    /\ solo' = IF sockFile # {} THEN NotSolo(d) ELSE solo
    /\ UNCHANGED <<listening, entryFile, entryLive, probeRes, startTouched,
                   unlinked, clobbered>>

\* start() and stop() with stop() called on any instance.
NextStop ==
    \/ NextStart
    \/ \E d \in Daemons : StopUnstarted(d)

SpecStop == InitStart /\ [][NextStop]_vars

----------------------------------------------------------------------------
\* One UnixIPCServer serving connections: _handle_client, lines 149-175.

Conns == 1..NumConns

\* What a client can put on the wire: a complete frame holding a valid
\* message, a complete frame whose body from_bytes rejects, or a frame cut
\* short (nothing can follow it).
Frames == {"req", "junk", "partial"}

\* Exceptions a handler may raise, with the argument they were built from.
\* No exception has been caught.
NoExc == [cls |-> "none", arg |-> ""]

Excs == {[cls |-> "RuntimeError", arg |-> "boom"], [cls |-> "KeyError", arg |-> "srv"]}

\* The exception of a failed write on a connection the peer has left.
BrokenPipe == [cls |-> "BrokenPipeError", arg |-> "Broken pipe"]

\* str(e): the argument, which KeyError shows in quotes.
StrOf(e) == IF e.cls = "KeyError" THEN "'" \o e.arg \o "'" ELSE e.arg

\* The handler's answer to a request.
HandlerResult == [action |-> "result", payload |-> [ok |-> "yes"]]

\* Mutant of ErrorResponse: the error text is dropped.
ErrorResponse_NoText(e) == [action |-> "error", payload |-> [error |-> ""]]

\* Lines 162-164: the error response built from the caught exception.
ErrorResponse(e) == [action |-> "error", payload |-> [error |-> StrOf(e)]]

\* Mutant of ReadOutcome: whatever bytes have arrived are taken for a message
\* (a plain read in place of readexactly).
ReadOutcome_ShortRead(frames, peerClosed) ==
    IF frames # <<>> THEN "message"
    ELSE IF peerClosed THEN "none"
    ELSE "wait"

\* read_message (lines 50-74) on the unread frames of a connection:
\* "wait" while the next frame is incomplete and the peer is still there.
ReadOutcome(frames, peerClosed) ==
    IF frames # <<>> /\ Head(frames) = "req" THEN "message"
    ELSE IF frames # <<>> /\ Head(frames) = "junk" THEN "raise"
    ELSE IF peerClosed THEN "none"
    ELSE "wait"

\* write_message (lines 77-80): fails only when the peer has left, and even
\* then the bytes may be taken by the kernel without an error.
WriteOutcomes(peerClosed) == IF peerClosed THEN {"ok", "raise"} ELSE {"ok"}

\* What reaches the client of a write that did not fail.
Delivered(c, msg) == IF cconn[c] = "open" THEN Append(s2c[c], msg) ELSE s2c[c]

\* The last frame written was cut short.
EndsPartial(frames) == IF frames = <<>> THEN FALSE ELSE frames[Len(frames)] = "partial"

\* A client connects.
ClientConnect(c) ==
    /\ serving
    /\ cconn[c] = "idle"
    /\ cconn' = [cconn EXCEPT ![c] = "open"]
    /\ UNCHANGED <<nonServeVars, handledFrame, droppedMsg, serving, c2s, s2c, hpc, hexc, sclosed, nRead,
                   nHandled, path, errsBefore, errSeen>>

\* The client writes one more frame (a write on a connection the server has
\* closed fails and puts nothing on the wire).
ClientSend(c, f) ==
    /\ cconn[c] = "open"
    /\ ~sclosed[c]
    /\ Len(c2s[c]) + nRead[c] < MaxFrames
    /\ ~EndsPartial(c2s[c])
    /\ c2s' = [c2s EXCEPT ![c] = Append(@, f)]
    /\ UNCHANGED <<nonServeVars, handledFrame, droppedMsg, serving, cconn, s2c, hpc, hexc, sclosed, nRead,
                   nHandled, path, errsBefore, errSeen>>

\* The client closes its end.
ClientClose(c) ==
    /\ cconn[c] = "open"
    /\ cconn' = [cconn EXCEPT ![c] = "closed"]
    /\ UNCHANGED <<nonServeVars, handledFrame, droppedMsg, serving, c2s, s2c, hpc, hexc, sclosed, nRead,
                   nHandled, path, errsBefore, errSeen>>

\* Mutant of TaskReady: one connection is served at a time.
TaskReady_OneAtATime(c) ==
    \A o \in DOMAIN hpc \ {c} : hpc[o] \in {"none", "done"}

\* Lines 118-120: asyncio starts a task of its own for every accepted
\* connection; it does not wait for the tasks of other connections.
TaskReady(c) == TRUE

\* asyncio accepts the connection and starts a _handle_client task for it
\* (start_unix_server's callback, lines 118-120).
Accept(c) ==
    /\ serving
    /\ TaskReady(c)
    /\ cconn[c] # "idle"
    /\ hpc[c] = "none"
    /\ hpc' = [hpc EXCEPT ![c] = "read"]
    /\ errsBefore' = [errsBefore EXCEPT ![c] = errSeen]
    /\ UNCHANGED <<nonServeVars, handledFrame, droppedMsg, serving, cconn, c2s, s2c, hexc, sclosed, nRead,
                   nHandled, path, errSeen>>

\* Lines 154-157: read one message; on a message, invoke the handler.
ReadMessage(c) ==
    /\ hpc[c] = "read"
    /\ LET r == ReadOutcome(c2s[c], cconn[c] = "closed") IN
        /\ r # "wait"
        /\ IF r = "message"
           THEN /\ c2s' = [c2s EXCEPT ![c] = IF @ = <<>> THEN @ ELSE Tail(@)]
                /\ nRead' = [nRead EXCEPT ![c] = @ + 1]
                /\ nHandled' = [nHandled EXCEPT ![c] = @ + 1]
                /\ hpc' = [hpc EXCEPT ![c] = "handling"]
                /\ handledFrame' = [handledFrame EXCEPT ![c] =
                                       IF c2s[c] = <<>> THEN "nothing" ELSE Head(c2s[c])]
                /\ path' = path
           ELSE /\ c2s' = [c2s EXCEPT ![c] = IF r = "raise" THEN Tail(@) ELSE @]
                /\ hpc' = [hpc EXCEPT ![c] = "close"]
                /\ path' = [path EXCEPT ![c] = IF r = "raise" THEN "bad_frame"
                                               ELSE "no_message"]
                /\ UNCHANGED <<nRead, nHandled, handledFrame>>
    /\ UNCHANGED <<nonServeVars, droppedMsg, serving, cconn, s2c, hexc, sclosed, errsBefore, errSeen>>

\* Line 157: the suspended handler returns its response.
HandlerReturn(c) ==
    /\ hpc[c] = "handling"
    /\ hpc' = [hpc EXCEPT ![c] = "write"]
    /\ UNCHANGED <<nonServeVars, handledFrame, droppedMsg, serving, cconn, c2s, s2c, hexc, sclosed, nRead,
                   nHandled, path, errsBefore, errSeen>>

\* Lines 157, 159-164: the handler raises; the exception is caught.
HandlerRaise(c, e) ==
    /\ hpc[c] = "handling"
    /\ hpc' = [hpc EXCEPT ![c] = "write_err"]
    /\ hexc' = [hexc EXCEPT ![c] = e]
    /\ path' = [path EXCEPT ![c] = "handler_error"]
    /\ errSeen' = TRUE
    /\ UNCHANGED <<nonServeVars, handledFrame, droppedMsg, serving, cconn, c2s, s2c, sclosed, nRead,
                   nHandled, errsBefore>>

\* Line 158: write the response; a failed write is caught at line 159 too.
WriteResponse(c) ==
    /\ hpc[c] = "write"
    /\ \E o \in WriteOutcomes(cconn[c] = "closed") :
        IF o = "ok"
        THEN /\ s2c' = [s2c EXCEPT ![c] = Delivered(c, HandlerResult)]
             /\ hpc' = [hpc EXCEPT ![c] = "close"]
             /\ path' = [path EXCEPT ![c] = "responded"]
             /\ hexc' = hexc
        ELSE /\ hpc' = [hpc EXCEPT ![c] = "write_err"]
             /\ hexc' = [hexc EXCEPT ![c] = BrokenPipe]
             /\ path' = [path EXCEPT ![c] = "write_error"]
             /\ s2c' = s2c
    /\ UNCHANGED <<nonServeVars, handledFrame, droppedMsg, serving, cconn, c2s, sclosed, nRead, nHandled, errsBefore, errSeen>>

\* Lines 165-170: write the error response; a failure is only logged.
WriteErrorResponse(c) ==
    /\ hpc[c] = "write_err"
    /\ hpc' = [hpc EXCEPT ![c] = "close"]
    /\ \E o \in WriteOutcomes(cconn[c] = "closed") :
        s2c' = [s2c EXCEPT ![c] = IF o = "ok" THEN Delivered(c, ErrorResponse(hexc[c]))
                                  ELSE @]
    /\ UNCHANGED <<nonServeVars, handledFrame, droppedMsg, serving, cconn, c2s, hexc, sclosed, nRead,
                   nHandled, path, errsBefore, errSeen>>

\* Lines 173-175: the finally block closes the writer; what the client wrote
\* and the server did not read is discarded with the socket.
CloseWriter(c) ==
    /\ hpc[c] = "close"
    /\ hpc' = [hpc EXCEPT ![c] = "done"]
    /\ sclosed' = [sclosed EXCEPT ![c] = TRUE]
    /\ c2s' = [c2s EXCEPT ![c] = <<>>]
    /\ droppedMsg' = [droppedMsg EXCEPT ![c] = \E i \in 1..Len(c2s[c]) : c2s[c][i] = "req"]
    /\ UNCHANGED <<nonServeVars, hexc, handledFrame, serving, cconn, s2c, nRead, nHandled,
                   path, errsBefore, errSeen>>

\* Daemon 1 has bound the path and listens; no other daemon has started.
InitBound ==
    /\ sockFile = {1}
    /\ listening = [d \in Daemons |-> d = 1]
    /\ spc = [d \in Daemons |-> IF d = 1 THEN "listening" ELSE "new"]
    /\ entryFile = [d \in Daemons |-> {}]
    /\ entryLive = [d \in Daemons |-> FALSE]
    /\ probeRes = [d \in Daemons |-> "none"]
    /\ startTouched = [d \in Daemons |-> d = 1]
    /\ unlinked = [d \in Daemons |-> FALSE]
    /\ solo = [d \in Daemons |-> TRUE]
    /\ clobbered = FALSE

\* Both ends of connection c are closed: its place is taken by a later
\* connection.
NextConnection(c) ==
    /\ handledFrame' = [handledFrame EXCEPT ![c] = "none"]
    /\ droppedMsg' = [droppedMsg EXCEPT ![c] = FALSE]
    /\ hpc[c] = "done"
    /\ cconn[c] = "closed"
    /\ cconn' = [cconn EXCEPT ![c] = "idle"]
    /\ hpc' = [hpc EXCEPT ![c] = "none"]
    /\ s2c' = [s2c EXCEPT ![c] = <<>>]
    /\ sclosed' = [sclosed EXCEPT ![c] = FALSE]
    /\ nRead' = [nRead EXCEPT ![c] = 0]
    /\ nHandled' = [nHandled EXCEPT ![c] = 0]
    /\ path' = [path EXCEPT ![c] = "none"]
    /\ errsBefore' = [errsBefore EXCEPT ![c] = FALSE]
    /\ hexc' = [hexc EXCEPT ![c] = NoExc]
    /\ UNCHANGED <<nonServeVars, serving, c2s, errSeen>>

\* A listening server with no connection yet, on the connection slots S.
ServeReady(S) ==
    /\ InitBound
    /\ serving = TRUE
    /\ cconn = [c \in S |-> "idle"]
    /\ c2s = [c \in S |-> <<>>]
    /\ s2c = [c \in S |-> <<>>]
    /\ hpc = [c \in S |-> "none"]
    /\ hexc = [c \in S |-> NoExc]
    /\ sclosed = [c \in S |-> FALSE]
    /\ nRead = [c \in S |-> 0]
    /\ nHandled = [c \in S |-> 0]
    /\ path = [c \in S |-> "none"]
    /\ errsBefore = [c \in S |-> FALSE]
    /\ errSeen = FALSE
    /\ handledFrame = [c \in S |-> "none"]
    /\ droppedMsg = [c \in S |-> FALSE]

ServeInit(S) == ServeReady(S) /\ ClientIdle

InitServe == ServeInit(Conns)

NextServe ==
    \E c \in Conns :
        \/ ClientConnect(c)
        \/ \E f \in Frames : ClientSend(c, f)
        \/ ClientClose(c)
        \/ Accept(c)
        \/ ReadMessage(c)
        \/ HandlerReturn(c)
        \/ \E e \in Excs : HandlerRaise(c, e)
        \/ WriteResponse(c)
        \/ WriteErrorResponse(c)
        \/ CloseWriter(c)
        \/ NextConnection(c)

SpecServe == InitServe /\ [][NextServe]_vars

\* ---- connections served side by side ----

ParConns == 1..NumParallel

\* The server's own steps on connection c.
ServerStep(c) ==
    \/ Accept(c)
    \/ ReadMessage(c)
    \/ HandlerReturn(c)
    \/ \E e \in Excs : HandlerRaise(c, e)
    \/ WriteResponse(c)
    \/ WriteErrorResponse(c)
    \/ CloseWriter(c)

InitParallel == ServeInit(ParConns)

\* The client of a connection writes its one request, as _send_request does
\* (session.py line 83).
ClientRequest(c) ==
    /\ c2s[c] = <<>> /\ nRead[c] = 0
    /\ ClientSend(c, "req")

\* Every slot is one connection.
NextParallel ==
    \E c \in ParConns :
        \/ ClientConnect(c)
        \/ ClientRequest(c)
        \/ ClientClose(c)
        \/ ServerStep(c)

SpecParallel == InitParallel /\ [][NextParallel]_vars

\* The event loop runs every task that can run, and the handlers invoked on
\* connections other than the first complete; the handler of the first
\* connection may stay suspended for ever.
SpecParallelFair ==
    SpecParallel /\ \A c \in ParConns \ {1} : WF_vars(ServerStep(c))

----------------------------------------------------------------------------
\* The Session Client (session.py) and the endpoint it looks at.

Pids == Daemons \cup {Previous}

\* The daemons that run as children of the Session Client (lines 187-204).
Children == 1..MaxChildren

Running(p) == p \in Daemons /\ dstate[p] = "running"

\* The texts that name process p in a pid file.
PidTexts(p) == {ToString(p), ToString(p) \o "\n"}

NamesPid(text) == \E p \in Pids : text \in PidTexts(p)

NamedPid(text) == CHOOSE p \in Pids : text \in PidTexts(p)

\* Mutant of ParsePid: int() without the strip().
ParsePid_NoStrip(text) ==
    IF \E p \in Pids : text = ToString(p)
    THEN [ok |-> TRUE, pid |-> CHOOSE p \in Pids : text = ToString(p)]
    ELSE [ok |-> FALSE, pid |-> 0]

\* Line 143, int(pid_file.read_text().strip()): the pid, or ValueError.
ParsePid(text) ==
    IF NamesPid(text) THEN [ok |-> TRUE, pid |-> NamedPid(text)]
    ELSE [ok |-> FALSE, pid |-> 0]

\* platform.is_process_alive(pid), line 144.
IsProcessAlive(p) == Running(p)

\* Mutant of UnlinkPidFile: the pid file is removed whatever the check said.
UnlinkPidFile_Always(alive) == TRUE

\* Lines 144-147: the pid file is unlinked when its process is not alive.
UnlinkPidFile(alive) == ~alive

\* Mutant of ConnAfterFinally: the connection is closed on success only.
ConnAfterFinally_SuccessOnly(out) == IF out = "ok" THEN "closed" ELSE "open"

\* Lines 93-95: the finally block closes the connection whatever happened.
ConnAfterFinally(out) == "closed"

\* Mutant of ConnectUnix: the socket file's existence is taken for a connection.
ConnectUnix_FileOnly(file) == file # {}

\* _connect_unix, ipc.py lines 304-315: a connection (TRUE), or None when the
\* file is missing or nobody listens behind it.
ConnectUnix(file) == file # {} /\ ListenerBehind(file)

\* Mutant of SpawnNeeded: the daemon is started whatever the first check said.
SpawnNeeded_Always(running) == TRUE

\* Lines 99-100: start a daemon only when the first check found none running.
SpawnNeeded(running) == ~running

\* Mutant of PollAgain: the loop goes on past the timeout.
PollAgain_NoTimeout(elapsed) == TRUE

\* Line 107, the loop condition: time.time() - start_time < DAEMON_START_TIMEOUT.
PollAgain(elapsed) == elapsed < TimeoutTicks

\* Lines 113-133: the error raised on timeout, by what the log file holds.
StartFailure(log) ==
    IF log = "lines" THEN "start_failed_log_tail"
    ELSE IF log = "empty" THEN "start_failed_log_empty"
    ELSE "start_failed_log_not_found"

\* Mutant of ReadResult: an error response is returned like any other.
ReadResult_ErrorReturned(srv) ==
    IF srv \in {"result", "error"} THEN "ok"
    ELSE IF srv = "eof" THEN "no_response"
    ELSE "read_exc"

\* Mutant of ReadReturns: the read ends only when a response has arrived.
ReadReturns_OnResponseOnly(srv) == srv \in {"result", "error"}

\* read_message, ipc.py lines 50-74: readexactly returns once the frame is
\* there and raises once the peer has closed or reset the connection.
ReadReturns(srv) == srv # "pending"

\* Lines 84-92: what _send_request makes of the daemon's answer.
ReadResult(srv) ==
    IF srv = "result" THEN "ok"
    ELSE IF srv = "error" THEN "daemon_error"
    ELSE IF srv = "eof" THEN "no_response"
    ELSE "read_exc"

\* The operations of the client: all go through _send_request (lines 35-69).
Ops == {"list_tools", "call_tool", "status", "shutdown"}

\* The end-to-end scenario: list_tools, then call_tool, then status.
Scenario == <<"list_tools", "call_tool", "status">>

T(b) == IF b THEN "T" ELSE "F"

\* The client's locals before a request.
ClientStart ==
    [pc |-> "idle", op |-> "none", ret |-> "first", idr |-> FALSE, text |-> "",
     pid |-> 0, elapsed |-> 0, rq |-> "none", peer |-> 0, out |-> "none"]

\* No response at hand.
NoResp == [action |-> "", payload |-> <<>>]

\* The responses a daemon writes: for a request it handled, a result or a
\* status whose payload happens to hold an "error" entry; for a handler
\* that raised (ipc.py lines 162-164) or a daemon-side failure, an "error"
\* response with or without the error text.
ResponsesOf(srv) ==
    IF srv = "result"
    THEN {[action |-> "result", payload |-> <<<<"tools", "t">>>>],
          [action |-> "status", payload |-> <<<<"error", "boom">>>>]}
    ELSE IF srv = "error"
    THEN {[action |-> "error", payload |-> <<<<"error", "boom">>>>],
          [action |-> "error", payload |-> <<>>]}
    ELSE {NoResp}

\* payload.get(key, default).
PayloadGet(payload, key, default) ==
    IF \E k \in 1..Len(payload) : payload[k][1] = key
    THEN payload[CHOOSE k \in 1..Len(payload) : payload[k][1] = key][2]
    ELSE default

\* Mutant of RaisedText: one text for every failure of the exchange.
RaisedText_OneText(out, resp) ==
    IF out = "daemon_error" THEN PayloadGet(resp.payload, "error", "Unknown error")
    ELSE IF out \in {"no_response", "failed_to_connect"}
    THEN "Failed to connect to daemon"
    ELSE out

\* The text of the RuntimeError _send_request raises (lines 79, 87, 90);
\* other failures carry their own exception.
RaisedText(out, resp) ==
    IF out = "daemon_error" THEN PayloadGet(resp.payload, "error", "Unknown error")
    ELSE IF out = "no_response" THEN "No response from daemon"
    ELSE IF out = "failed_to_connect" THEN "Failed to connect to daemon"
    ELSE out

\* Mutant of Swallows: shutdown() lets pass only a connection that ended.
Swallows_ClosedOnly(op, out) ==
    op = "shutdown" /\ out \in {"no_response", "read_exc", "write_exc"}

\* Lines 66-69: shutdown() catches every Exception of _send_request.
Swallows(op, out) == op = "shutdown"

GhostStart ==
    [spawns |-> 0, probes |-> 0, opens |-> 0, writes |-> 0, reads |-> 0,
     first |-> "none", tExists |-> "unk", tParses |-> "unk", tLive |-> "unk",
     tConn |-> "unk", probeOpen |-> FALSE, sent |-> FALSE, delLive |-> FALSE,
     deadRead |-> FALSE, ensured |-> FALSE, pollOk |-> FALSE, logSeen |-> "none",
     srv |-> "none", resp |-> NoResp,
     hist |-> [on |-> FALSE, stage |-> 0, peer |-> 0, base |-> 0]]

\* The history of the scenario, kept across requests where it is switched
\* on: a request that got its response (lines 84-92) moves the scenario on by
\* one when it is the scenario's next operation; peer is the daemon that
\* answered the first one.
Record(h, op, out, peer) ==
    IF h.on /\ out = "ok" /\ h.stage < Len(Scenario) /\ op = Scenario[h.stage + 1]
    THEN [h EXCEPT !.stage = @ + 1, !.peer = IF h.stage = 0 THEN peer ELSE @]
    ELSE h

\* _is_daemon_running returns b to the place it was called from.
IdrReturn(b) ==
    [cl EXCEPT !.idr = b, !.text = "", !.pid = 0,
               !.pc = IF cl.ret = "first" THEN "ensure_first" ELSE "poll_result"]

\* _send_request (and the operation around it) ends with outcome out:
\* shutdown() swallows every exception (lines 64-69).
Finish(out) ==
    [cl EXCEPT !.out = out, !.idr = FALSE, !.elapsed = 0, !.peer = 0,
               !.pc = IF out = "ok" \/ Swallows(cl.op, out) THEN "returned" ELSE "raised"]

\* Mutant of AfterFailure: a failed exchange is tried again on a new connection.
AfterFailure_Retry(out) ==
    IF out = "ok" THEN Finish(out) ELSE [cl EXCEPT !.pc = "connect"]

\* Lines 93-95 and the return or raise after them: nothing is retried.
AfterFailure(out) == Finish(out)

\* An operation starts: _send_request calls _ensure_daemon_running, which
\* calls _is_daemon_running (lines 71-74, 97-99).
BeginRequest(o) ==
    /\ cl.pc \in {"idle", "returned", "raised"}
    /\ cl' = [ClientStart EXCEPT !.pc = "idr_exists", !.op = o]
    /\ gh' = [GhostStart EXCEPT !.hist = [gh.hist EXCEPT !.base = gh.hist.stage]]
    /\ reqSrv' = "none"
    /\ UNCHANGED <<sideVars, startVars, serveVars, pidFile, dstate, logFile, pending>>

\* _is_daemon_running, lines 138-140: pid_file.exists().
IdrExists ==
    /\ cl.pc = "idr_exists"
    /\ gh' = [gh EXCEPT !.probes = @ + 1, !.tExists = T(pidFile # {}),
                        !.tParses = "unk", !.tLive = "unk", !.tConn = "unk"]
    /\ cl' = IF pidFile = {} THEN IdrReturn(FALSE) ELSE [cl EXCEPT !.pc = "idr_read"]
    /\ UNCHANGED <<sideVars, startVars, serveVars, pidFile, dstate, logFile, pending, reqSrv>>

\* Line 143 (with 148-149): read and parse the pid file; OSError when the
\* file is gone, ValueError when the text is no number.
IdrRead ==
    /\ cl.pc = "idr_read"
    /\ IF pidFile = {}
       THEN /\ cl' = IdrReturn(FALSE)
            /\ gh' = [gh EXCEPT !.tExists = "F"]
       ELSE LET text == CHOOSE t \in pidFile : TRUE
                r == ParsePid(text) IN
            /\ gh' = [gh EXCEPT !.tParses = T(NamesPid(text))]
            /\ cl' = IF r.ok THEN [cl EXCEPT !.pc = "idr_alive", !.pid = r.pid,
                                             !.text = text]
                     ELSE IdrReturn(FALSE)
    /\ UNCHANGED <<sideVars, startVars, serveVars, pidFile, dstate, logFile, pending, reqSrv>>

\* Line 144: is_process_alive(pid).
IdrAlive ==
    /\ cl.pc = "idr_alive"
    /\ gh' = [gh EXCEPT !.tLive = T(Running(NamedPid(cl.text))),
                        !.deadRead = ~Running(NamedPid(cl.text))]
    /\ cl' = [cl EXCEPT !.pc = IF UnlinkPidFile(IsProcessAlive(cl.pid)) THEN "idr_unlink"
                               ELSE "idr_connect"]
    /\ UNCHANGED <<sideVars, startVars, serveVars, pidFile, dstate, logFile, pending, reqSrv>>

\* Lines 145-147: the pid file is stale; unlink(missing_ok=True).
IdrUnlink ==
    /\ cl.pc = "idr_unlink"
    /\ pidFile' = {}
    /\ gh' = [gh EXCEPT !.delLive = \E t \in pidFile : NamesPid(t) /\ Running(NamedPid(t))]
    /\ cl' = IdrReturn(FALSE)
    /\ UNCHANGED <<sideVars, startVars, serveVars, dstate, logFile, pending, reqSrv>>

\* Lines 151-153: connect_to_daemon().
IdrConnect ==
    /\ cl.pc = "idr_connect"
    /\ gh' = [gh EXCEPT !.tConn = T(ListenerBehind(sockFile)),
                        !.probeOpen = ConnectUnix(sockFile)]
    /\ cl' = IF ConnectUnix(sockFile) THEN [cl EXCEPT !.pc = "idr_close"]
             ELSE IdrReturn(FALSE)
    /\ UNCHANGED <<sideVars, startVars, serveVars, pidFile, dstate, logFile, pending, reqSrv>>

\* Lines 154-157: close the probe connection and return True.
IdrClose ==
    /\ cl.pc = "idr_close"
    /\ gh' = [gh EXCEPT !.probeOpen = FALSE, !.pollOk = (cl.ret = "poll")]
    /\ cl' = IdrReturn(TRUE)
    /\ UNCHANGED <<sideVars, startVars, serveVars, pidFile, dstate, logFile, pending, reqSrv>>

\* The ghost record once the result of _is_daemon_running has been used.
Looked == [gh EXCEPT !.tExists = "unk", !.tParses = "unk", !.tLive = "unk",
                     !.tConn = "unk", !.deadRead = FALSE]

\* _ensure_daemon_running, lines 99-100: return if the daemon is running.
EnsureFirst ==
    /\ cl.pc = "ensure_first"
    /\ gh' = [Looked EXCEPT !.first = T(cl.idr), !.ensured = ~SpawnNeeded(cl.idr)]
    /\ cl' = [cl EXCEPT !.idr = FALSE,
                        !.pc = IF SpawnNeeded(cl.idr) THEN "start_daemon" ELSE "connect"]
    /\ UNCHANGED <<sideVars, startVars, serveVars, pidFile, dstate, logFile, pending, reqSrv>>

\* Lines 103-106 with _start_daemon, lines 161-204: open the log file for
\* writing, Popen the detached daemon, note the start time.
StartDaemon ==
    /\ cl.pc = "start_daemon"
    /\ logFile' = "empty"
    /\ pending' = IF pending < Cardinality({d \in Children : dstate[d] = "unborn"})
                  THEN pending + 1 ELSE pending
    /\ gh' = [gh EXCEPT !.spawns = @ + 1]
    /\ cl' = [cl EXCEPT !.pc = "poll_check", !.elapsed = 0]
    /\ UNCHANGED <<sideVars, startVars, serveVars, pidFile, dstate, reqSrv>>

\* Line 107: the loop condition; a poll is a call of _is_daemon_running (line 108).
PollCheck ==
    /\ cl.pc = "poll_check"
    /\ cl' = IF PollAgain(cl.elapsed) THEN [cl EXCEPT !.pc = "idr_exists", !.ret = "poll"]
             ELSE [cl EXCEPT !.pc = "timeout"]
    /\ UNCHANGED <<sideVars, startVars, serveVars, pidFile, dstate, logFile, pending, reqSrv, gh>>

\* Lines 108-109: return as soon as a poll succeeds.
PollResult ==
    /\ cl.pc = "poll_result"
    /\ cl' = [cl EXCEPT !.idr = FALSE, !.pc = IF cl.idr THEN "connect" ELSE "sleep"]
    /\ gh' = [Looked EXCEPT !.ensured = cl.idr]
    /\ UNCHANGED <<sideVars, startVars, serveVars, pidFile, dstate, logFile, pending, reqSrv>>

\* Line 110: asyncio.sleep(DAEMON_CONNECT_RETRY_DELAY); the clock moves on by
\* one retry delay, or by more.
Sleep ==
    /\ cl.pc = "sleep"
    /\ \E t \in {cl.elapsed + 1, TimeoutTicks} :
        /\ t > cl.elapsed
        /\ cl' = [cl EXCEPT !.pc = "poll_check", !.elapsed = t]
    /\ UNCHANGED <<sideVars, startVars, serveVars, pidFile, dstate, logFile, pending, reqSrv, gh>>

\* Lines 112-133: the daemon did not come up in time.
StartTimeout ==
    /\ cl.pc = "timeout"
    /\ cl' = [Finish(StartFailure(logFile)) EXCEPT !.elapsed = cl.elapsed]
    /\ gh' = [gh EXCEPT !.logSeen = logFile]
    /\ UNCHANGED <<sideVars, startVars, serveVars, pidFile, dstate, logFile, pending, reqSrv>>

\* _send_request, lines 77-81: connect_to_daemon().
Connect ==
    /\ cl.pc = "connect"
    /\ IF ConnectUnix(sockFile)
       THEN /\ cl' = [cl EXCEPT !.pc = "write", !.rq = "open",
                                !.peer = CHOOSE o \in sockFile : TRUE]
            /\ gh' = [gh EXCEPT !.opens = @ + 1]
            /\ reqSrv' = "pending"
       ELSE /\ cl' = Finish("failed_to_connect")
            /\ UNCHANGED <<gh, reqSrv>>
    /\ UNCHANGED <<sideVars, startVars, serveVars, pidFile, dstate, logFile, pending>>

\* Line 83: write_message; it can fail once the daemon's end is closed.
WriteRequest ==
    /\ cl.pc = "write"
    /\ \E o \in WriteOutcomes(reqSrv \in {"eof", "reset"}) :
        IF o = "ok"
        THEN /\ cl' = [cl EXCEPT !.pc = "read"]
             /\ gh' = [gh EXCEPT !.writes = @ + 1, !.sent = TRUE]
        ELSE /\ cl' = [cl EXCEPT !.pc = "finally", !.out = "write_exc"]
             /\ gh' = [gh EXCEPT !.writes = @ + 1]
    /\ UNCHANGED <<sideVars, startVars, serveVars, pidFile, dstate, logFile, pending, reqSrv>>

\* Lines 84-92: read_message, then raise or return by what arrived.
ReadResponse ==
    /\ cl.pc = "read"
    /\ ReadReturns(reqSrv)
    /\ cl' = [cl EXCEPT !.pc = "finally", !.out = ReadResult(reqSrv)]
    /\ \E r \in ResponsesOf(reqSrv) :
        gh' = [gh EXCEPT !.reads = @ + 1, !.srv = reqSrv, !.resp = r]
    /\ UNCHANGED <<sideVars, startVars, serveVars, pidFile, dstate, logFile, pending, reqSrv>>

\* Lines 93-95: the finally block closes the connection; then the return or raise.
Finally ==
    /\ cl.pc = "finally"
    /\ cl' = [AfterFailure(cl.out) EXCEPT !.rq = ConnAfterFinally(cl.out)]
    /\ gh' = [gh EXCEPT !.hist = Record(gh.hist, cl.op, cl.out, cl.peer)]
    /\ reqSrv' = "none"
    /\ UNCHANGED <<sideVars, startVars, serveVars, pidFile, dstate, logFile, pending>>

\* The steps inside a request.
ClientBody ==
    \/ IdrExists
    \/ IdrRead
    \/ IdrAlive
    \/ IdrUnlink
    \/ IdrConnect
    \/ IdrClose
    \/ EnsureFirst
    \/ StartDaemon
    \/ PollCheck
    \/ PollResult
    \/ Sleep
    \/ StartTimeout
    \/ Connect
    \/ WriteRequest
    \/ ReadResponse
    \/ Finally

ClientStep ==
    \/ \E o \in Ops : BeginRequest(o)
    \/ ClientBody

\* ---- the daemon side of the endpoint, as far as the client can see it ----

\* A child started by Popen begins to run (python -m mcp_launchpad.daemon).
DaemonBoot(d) ==
    /\ pending > 0
    /\ d \in Children
    /\ dstate[d] = "unborn"
    /\ \A e \in Children : e < d => dstate[e] # "unborn"
    /\ dstate' = [dstate EXCEPT ![d] = "running"]
    /\ pending' = pending - 1
    /\ UNCHANGED <<sideVars, startVars, serveVars, pidFile, logFile, reqSrv, cl, gh>>

\* A running daemon writes its pid file: the file is empty between the
\* open for writing and the write.
DaemonWritePid(d, text) ==
    /\ Running(d)
    /\ pidFile # {text}
    /\ pidFile' = {text}
    /\ UNCHANGED <<sideVars, startVars, serveVars, dstate, logFile, pending, reqSrv, cl, gh>>

\* A running daemon writes to its log (its stdout and stderr, lines 191-192).
DaemonLog(d) ==
    /\ Running(d)
    /\ logFile # "lines"
    /\ logFile' = "lines"
    /\ UNCHANGED <<sideVars, startVars, serveVars, pidFile, dstate, pending, reqSrv, cl, gh>>

\* A running daemon's UnixIPCServer.start() binds the path (start() itself is
\* followed step by step in SpecStart).
DaemonBind(d) ==
    /\ Running(d)
    /\ spc[d] = "new"
    /\ spc' = [spc EXCEPT ![d] = "listening"]
    /\ sockFile' = {d}
    /\ listening' = [listening EXCEPT ![d] = TRUE]
    /\ UNCHANGED <<entryFile, entryLive, probeRes, startTouched, unlinked, solo,
                   clobbered, sideVars, serveVars, clientVars>>

\* The daemon serving the request connection answers the request it read
\* (_handle_client, ipc.py lines 154-170), or closes without an answer.
DaemonAnswer(a) ==
    /\ reqSrv = "pending"
    /\ Running(cl.peer)
    /\ a \in {"result", "error"} => gh.sent
    /\ reqSrv' = a
    /\ UNCHANGED <<sideVars, startVars, serveVars, pidFile, dstate, logFile, pending, cl, gh>>

\* A daemon exits: after stop() and its cleanup (both files removed), or
\* killed (both files left behind). Its connections end.
DaemonExit(d, clean) ==
    /\ Running(d)
    /\ dstate' = [dstate EXCEPT ![d] = "dead"]
    /\ listening' = [listening EXCEPT ![d] = FALSE]
    /\ spc' = [spc EXCEPT ![d] = "stopped"]
    /\ sockFile' = IF clean THEN {} ELSE sockFile
    /\ pidFile' = IF clean THEN {} ELSE pidFile
    /\ \E r \in {"eof", "reset"} :
        reqSrv' = IF reqSrv = "pending" /\ cl.peer = d THEN r ELSE reqSrv
    /\ UNCHANGED <<entryFile, entryLive, probeRes, startTouched, unlinked, solo,
                   clobbered, sideVars, serveVars, logFile, pending, cl, gh>>

DaemonStep ==
    \/ \E d \in Daemons : DaemonBoot(d)
    \/ \E d \in Daemons : \E text \in {""} \cup PidTexts(d) : DaemonWritePid(d, text)
    \/ \E d \in Daemons : DaemonLog(d)
    \/ \E d \in Daemons : DaemonBind(d)
    \/ \E a \in {"result", "error", "eof"} : DaemonAnswer(a)
    \/ \E d \in Daemons : \E clean \in BOOLEAN : DaemonExit(d, clean)

\* No daemon runs; the endpoint is clean, or holds the pid file and socket
\* file a killed daemon left behind.
InitEndpoint ==
    /\ listening = [d \in Daemons |-> FALSE]
    /\ spc = [d \in Daemons |-> "new"]
    /\ entryFile = [d \in Daemons |-> {}]
    /\ entryLive = [d \in Daemons |-> FALSE]
    /\ probeRes = [d \in Daemons |-> "none"]
    /\ startTouched = [d \in Daemons |-> FALSE]
    /\ unlinked = [d \in Daemons |-> FALSE]
    /\ solo = [d \in Daemons |-> TRUE]
    /\ clobbered = FALSE
    /\ ServeIdle
    /\ \/ sockFile = {} /\ pidFile = {} /\ logFile = "absent"
       \/ sockFile = {Previous} /\ pidFile = {ToString(Previous)} /\ logFile = "lines"
    /\ dstate = [d \in Daemons |-> "unborn"]
    /\ pending = 0
    /\ reqSrv = "none"
    /\ cl = ClientStart
    /\ SideIdle

InitClient == InitEndpoint /\ gh = GhostStart

NextClient == ClientStep \/ DaemonStep

SpecClient == InitClient /\ [][NextClient]_vars

\* The client's own steps are always taken in the end: its event loop runs
\* the one coroutine, and a sleep ends.
SpecClientFair == SpecClient /\ WF_vars(ClientStep)

\* ---- a session against a daemon that starts up once and stays up ----

\* A daemon writes its pid file once, while starting up, before it binds.
StartupWritePid(d, text) ==
    /\ spc[d] = "new"
    /\ pidFile \cap PidTexts(d) = {}
    /\ DaemonWritePid(d, text)

\* The daemons start, serve and answer; none exits and none drops a request.
StableDaemonStep ==
    \/ \E d \in Daemons : DaemonBoot(d)
    \/ \E d \in Daemons : \E text \in PidTexts(d) : StartupWritePid(d, text)
    \/ \E d \in Daemons : DaemonLog(d)
    \/ \E d \in Daemons : DaemonBind(d)
    \/ \E a \in {"result", "error"} : DaemonAnswer(a)

InitSession ==
    InitEndpoint /\ gh = [GhostStart EXCEPT !.hist = [@ EXCEPT !.on = TRUE]]

NextSession ==
    \/ \E o \in Ops \ {"shutdown"} : BeginRequest(o)
    \/ ClientBody
    \/ StableDaemonStep

SpecSession == InitSession /\ [][NextSession]_vars

----------------------------------------------------------------------------
\* Claims about start() racing on one socket path.

\* Daemons reachable through the path: the path names their listening socket.
ReachableDaemons == {d \in Daemons : listening[d] /\ sockFile = {d}}

\* C1: under every interleaving of daemons calling start() on one path, at
\* most one of them is a live listener reachable at the path, and no start()
\* has removed the socket file of a daemon that was listening behind it.
C1_SingleListenerNoClobber ==
    /\ Cardinality(ReachableDaemons) <= 1
    /\ ~clobbered

\* C2: start() on a path where a file exists. When the probe connect was
\* accepted by a live listener, start() raised the conflict error, never
\* bound, and never removed or created a file (so, nobody else moving, the
\* path still names the listener it found). When no listener was behind the
\* file and no other daemon moved, start() removed the file with its unlink
\* and ended bound behind a file of its own.
C2_StartOnExistingPath ==
    \A d \in Daemons :
        /\ probeRes[d] = "connected" =>
            /\ spc[d] = "conflict"
            /\ ~listening[d]
            /\ ~startTouched[d]
            /\ solo[d] => (sockFile = entryFile[d] /\ ListenerBehind(sockFile))
        /\ (entryFile[d] # {} /\ ~entryLive[d] /\ solo[d]
              /\ spc[d] \notin InStart \cup {"new"}) =>
            /\ spc[d] \in {"listening", "closed", "stopped"}
            /\ unlinked[d]
            /\ spc[d] = "listening" => (sockFile = {d} /\ listening[d])

\* C2 witness: one daemon bound over a stale file undisturbed, and a second
\* daemon's probe was accepted by it and ended in the conflict error.
C2_Witness ==
    \E d, e \in Daemons :
        /\ d # e
        /\ entryFile[d] = {Previous} /\ solo[d] /\ spc[d] = "listening"
        /\ sockFile = {d}
        /\ entryFile[e] = {d} /\ probeRes[e] = "connected" /\ spc[e] = "conflict"

----------------------------------------------------------------------------
\* Claims about _handle_client.

\* C3: on every accepted connection the server takes at most one message off
\* the stream, invokes the handler at most once and only on a complete
\* message it has read, writes (at most one response) only after the request
\* was read, and has closed the connection whenever its task has ended,
\* whichever path it took; no second message is ever handled.
C3_OneRequestPerConnection ==
    \A c \in Conns :
        /\ nRead[c] <= 1
        /\ nHandled[c] <= 1
        /\ nHandled[c] = nRead[c]
        /\ nHandled[c] = 1 => handledFrame[c] = "req"
        /\ hpc[c] \in {"handling", "write", "write_err"} => nRead[c] = 1
        /\ s2c[c] # <<>> => (nRead[c] = 1 /\ Len(s2c[c]) = 1)
        /\ hpc[c] = "done" =>
            /\ sclosed[c]
            /\ path[c] \in {"no_message", "bad_frame", "responded",
                            "handler_error", "write_error"}
        /\ sclosed[c] => hpc[c] = "done"

\* C3 witness: a connection on which the one request was handled and
\* answered, and a second complete message the client had sent was left
\* unhandled when the server closed.
C3_Witness ==
    \E c \in Conns :
        /\ hpc[c] = "done" /\ sclosed[c]
        /\ nHandled[c] = 1 /\ path[c] = "responded"
        /\ droppedMsg[c]

\* C4: when the handler raised on a connection whose client is still there,
\* the client has received exactly the response {action: "error", payload:
\* {error: str(e)}} by the time the server goes on to close the connection,
\* and the server still accepts connections.
C4_HandlerErrorAnswered ==
    /\ errSeen => serving
    /\ \A c \in Conns :
        (path[c] = "handler_error" /\ hpc[c] \in {"close", "done"} /\ cconn[c] = "open") =>
            /\ Len(s2c[c]) = 1
            /\ s2c[c][1].action = "error"
            /\ s2c[c][1].payload = [error |-> StrOf(hexc[c])]

\* C4 witness: a connection accepted after an earlier handler error is served,
\* its own handler raises KeyError, and its client holds the error response.
C4_Witness ==
    \E c \in Conns :
        /\ errsBefore[c]
        /\ path[c] = "handler_error" /\ hpc[c] = "done" /\ cconn[c] = "open"
        /\ hexc[c].cls = "KeyError"
        /\ s2c[c] = <<[action |-> "error", payload |-> [error |-> "'srv'"]]>>

----------------------------------------------------------------------------
\* The legacy-daemon cleanup of the Session Client, called on its own. The
\* legacy endpoint's paths are unset (the platform has none), the same as
\* the current endpoint's, or different; "same" makes the legacy files the
\* current endpoint's files.

LegacyPaths == {"unset", "same", "differs"}

\* What a legacy pid file can hold: a pid, nothing, or text that is no number.
LegacyTexts == {ToString(p) : p \in Pids} \cup {"", "junk"}

\* The file behind the legacy pid path, and the one behind the legacy socket path.
LegacyPidFile == IF lg.paths = "same" THEN pidFile ELSE lg.pid

LegacySockExists == IF lg.paths = "same" THEN sockFile # {} ELSE lg.sock

\* Mutant of CleanupSkips: only unset paths are skipped.
CleanupSkips_UnsetOnly(paths) == paths = "unset"

\* The cleanup does nothing when the legacy paths are unset or identical to
\* the current endpoint's.
CleanupSkips(paths) == paths \in {"unset", "same"}

\* Mutant of UnlinksLegacyPid: a pid file that does not parse is left behind.
UnlinksLegacyPid_ParsedOnly(parsed) == parsed

\* The legacy pid file is deleted whatever its content.
UnlinksLegacyPid(parsed) == TRUE

\* _cleanup_legacy_daemon is called: it returns at once for unset or
\* identical paths.
CleanupEnter ==
    /\ lg.pc = "idle"
    /\ lg' = [lg EXCEPT !.runs = @ + 1,
                        !.pc = IF CleanupSkips(lg.paths) THEN "done" ELSE "pid_exists"]
    /\ UNCHANGED <<startVars, serveVars, clientVars, cn, wr, sp, pp, tc>>

\* Does the legacy pid file exist?
CleanupPidExists ==
    /\ lg.pc = "pid_exists"
    /\ lg' = [lg EXCEPT !.pc = IF LegacyPidFile = {} THEN "sock" ELSE "read"]
    /\ UNCHANGED <<startVars, serveVars, clientVars, cn, wr, sp, pp, tc>>

\* Read and parse it; unparsable content is no reason to keep the file.
CleanupReadPid ==
    /\ lg.pc = "read"
    /\ LET r == IF LegacyPidFile = {} THEN [ok |-> FALSE, pid |-> 0]
                ELSE ParsePid(CHOOSE t \in LegacyPidFile : TRUE) IN
        lg' = [lg EXCEPT !.seen = r.pid,
                         !.pc = IF r.ok THEN "alive"
                                ELSE IF UnlinksLegacyPid(FALSE) THEN "unlink_pid"
                                ELSE "sock"]
    /\ UNCHANGED <<startVars, serveVars, clientVars, cn, wr, sp, pp, tc>>

\* is_process_alive(pid) on the legacy pid.
CleanupAlive ==
    /\ lg.pc = "alive"
    /\ lg' = [lg EXCEPT !.sawLive = IsProcessAlive(lg.seen),
                        !.pc = IF IsProcessAlive(lg.seen) THEN "kill" ELSE "unlink_pid"]
    /\ UNCHANGED <<startVars, serveVars, clientVars, cn, wr, sp, pp, tc>>

\* Send the termination signal; a process that is gone by now makes the call
\* fail, which is swallowed.
CleanupKill ==
    /\ lg.pc = "kill"
    /\ lg' = [lg EXCEPT !.sig = IF Running(lg.seen) THEN @ \cup {lg.seen} ELSE @,
                        !.pc = "unlink_pid"]
    /\ UNCHANGED <<startVars, serveVars, clientVars, cn, wr, sp, pp, tc>>

\* Delete the legacy pid file.
CleanupUnlinkPid ==
    /\ lg.pc = "unlink_pid"
    /\ IF lg.paths = "same"
       THEN /\ pidFile' = {}
            /\ lg' = [lg EXCEPT !.pc = "sock"]
       ELSE /\ pidFile' = pidFile
            /\ lg' = [lg EXCEPT !.pid = {}, !.pc = "sock"]
    /\ UNCHANGED <<startVars, serveVars, dstate, logFile, pending, reqSrv, cl, gh, cn, wr, sp, pp, tc>>

\* Delete the legacy socket file if it is there, and return.
CleanupUnlinkSock ==
    /\ lg.pc = "sock"
    /\ IF lg.paths = "same"
       THEN /\ sockFile' = {}
            /\ lg' = [lg EXCEPT !.pc = "done"]
       ELSE /\ sockFile' = sockFile
            /\ lg' = [lg EXCEPT !.sock = FALSE, !.pc = "done"]
    /\ UNCHANGED <<listening, spc, entryFile, entryLive, probeRes, startTouched,
                   unlinked, solo, clobbered, serveVars, clientVars, cn, wr, sp, pp, tc>>

\* A signalled process terminates.
TermDelivered(d) ==
    /\ d \in lg.sig
    /\ Running(d)
    /\ dstate' = [dstate EXCEPT ![d] = "dead"]
    /\ listening' = [listening EXCEPT ![d] = FALSE]
    /\ UNCHANGED <<sockFile, spc, entryFile, entryLive, probeRes, startTouched,
                   unlinked, solo, clobbered, serveVars, pidFile, logFile, pending,
                   reqSrv, cl, gh, sideVars>>

\* A daemon other than the current endpoint's dies on its own.
ProcessExit(d) ==
    /\ d # 1
    /\ Running(d)
    /\ dstate' = [dstate EXCEPT ![d] = "dead"]
    /\ UNCHANGED <<startVars, serveVars, pidFile, logFile, pending, reqSrv, cl, gh,
                   sideVars>>

\* Daemon 1 serves the current endpoint; the other daemons are old ones,
\* running or dead; the legacy endpoint is in any state.
InitLegacy ==
    /\ InitBound
    /\ ServeIdle
    /\ pidFile = {ToString(1)} /\ logFile = "lines" /\ pending = 0
    /\ dstate \in [Daemons -> {"running", "dead"}] /\ dstate[1] = "running"
    /\ reqSrv = "none" /\ cl = ClientStart /\ gh = GhostStart
    /\ cn = <<>> /\ wr = <<>> /\ sp = <<>> /\ pp = <<>> /\ tc = <<>>
    /\ \E paths \in LegacyPaths, sock \in BOOLEAN :
       \E pid \in {{}} \cup {{t} : t \in LegacyTexts} :
        lg = [LegacyIdle EXCEPT !.paths = paths,
                !.pid = IF paths = "differs" THEN pid ELSE {},
                !.sock = IF paths = "differs" THEN sock ELSE FALSE,
                !.pid0 = IF paths = "differs" THEN pid ELSE {},
                !.sock0 = IF paths = "differs" THEN sock ELSE FALSE]

NextLegacy ==
    \/ CleanupEnter
    \/ CleanupPidExists
    \/ CleanupReadPid
    \/ CleanupAlive
    \/ CleanupKill
    \/ CleanupUnlinkPid
    \/ CleanupUnlinkSock
    \/ \E d \in Daemons : TermDelivered(d)
    \/ \E d \in Daemons : ProcessExit(d)

SpecLegacy == InitLegacy /\ [][NextLegacy]_vars

----------------------------------------------------------------------------
\* ConnectionManager.connect() (connection.py) and the ${VAR} resolution it
\* uses (config.py). A string is the sequence of its pieces: "${", "}", the
\* variable names "A" and "B", the literal "-" and the text "v" a variable
\* can hold.

Open == "${"

Close == "}"

\* The ambient environment: each variable is unset ("U"), set to the empty
\* string ("E") or set to the text v ("V").
Ambients == [A : {"U", "E", "V"}, B : {"U", "E", "V"}]

\* os.environ.get(name): the state of the variable called name.
EnvGet(name, amb) ==
    IF name = <<"A">> THEN amb.A ELSE IF name = <<"B">> THEN amb.B ELSE "U"

\* os.environ.get(name, ""), config.py line 28.
EnvText(name, amb) == IF EnvGet(name, amb) = "V" THEN <<"v">> ELSE <<>>

\* The position of the first "}" at or after i, 0 if there is none.
NextClose(v, i) ==
    IF \E j \in i..Len(v) : v[j] = Close
    THEN CHOOSE j \in i..Len(v) : v[j] = Close /\ \A k \in i..(j - 1) : v[k] # Close
    ELSE 0

\* re.finditer(r'\$\{([^}]+)\}', value), config.py line 26: the matches from
\* position i on, left to right, as [s, e] index pairs.
RECURSIVE Matches(_, _)
Matches(v, i) ==
    IF i > Len(v) THEN <<>>
    ELSE IF v[i] # Open THEN Matches(v, i + 1)
    ELSE LET j == NextClose(v, i + 1) IN
         IF j = 0 THEN <<>>
         ELSE IF j = i + 1 THEN Matches(v, i + 1)
         ELSE <<[s |-> i, e |-> j]>> \o Matches(v, j + 1)

\* str.replace(pat, rep), config.py line 29: every occurrence, left to right.
RECURSIVE ReplaceAll(_, _, _)
ReplaceAll(r, pat, rep) ==
    IF Len(r) < Len(pat) THEN r
    ELSE IF SubSeq(r, 1, Len(pat)) = pat
         THEN rep \o ReplaceAll(SubSeq(r, Len(pat) + 1, Len(r)), pat, rep)
         ELSE <<r[1]>> \o ReplaceAll(Tail(r), pat, rep)

\* The loop of config.py lines 25-30 over the matches ms of value.
RECURSIVE ResolveLoop(_, _, _, _)
ResolveLoop(value, ms, result, amb) ==
    IF ms = <<>> THEN result
    ELSE LET mt == ms[1] IN
         ResolveLoop(value, Tail(ms),
                     ReplaceAll(result, SubSeq(value, mt.s, mt.e),
                                EnvText(SubSeq(value, mt.s + 1, mt.e - 1), amb)),
                     amb)

\* _resolve_env_vars, config.py lines 13-30.
ResolveEnvVars(value, amb) ==
    IF \A k \in 1..Len(value) : value[k] # Open THEN value
    ELSE ResolveLoop(value, Matches(value, 1), value, amb)

\* get_resolved_env / get_resolved_args, config.py lines 42-48.
Resolved(values, amb) == [k \in 1..Len(values) |-> ResolveEnvVars(values[k], amb)]

\* The pieces raw values are put together from.
Parts == {<<Open, "A", Close>>, <<Open, "B", Close>>, <<"-">>, <<Open>>, <<Close>>}

\* The raw values of env entries: one or two pieces, or a placeholder, the
\* literal and a placeholder.
RawValues ==
    Parts \cup {x \o y : x, y \in Parts}
          \cup {<<Open, a, Close, "-", Open, b, Close>> : a, b \in {"A", "B"}}

\* The raw values of args.
ArgValues == {<<"-">>, <<Open, "A", Close>>, <<"-", Open, "B", Close>>}

\* The env mappings of a server, as the sequence of their values.
EnvMaps == UNION {[1..n -> RawValues] : n \in 0..MaxEnv}

\* connection.py line 88: value.startswith("${") and value.endswith("}").
LooksRequired(value) ==
    Len(value) >= 2 /\ value[1] = Open /\ value[Len(value)] = Close

\* Line 89: value[2:-1].
RequiredName(value) == SubSeq(value, 2, Len(value) - 1)

\* Lines 88-90: the entry makes connect() raise the missing-variable error.
Missing(value, amb) ==
    LooksRequired(value) /\ EnvGet(RequiredName(value), amb) # "V"

\* Line 104: args=server_config.args.
SpawnArgs(args, amb) == args

\* Mutant of Deadline: the timeout never fires.
Deadline_Never(elapsed) == FALSE

\* Line 109, asyncio.timeout(CONNECTION_TIMEOUT): the deadline has passed.
Deadline(elapsed) == elapsed >= ConnTicks

\* Mutant of ProcAfterExit: the child is stopped on a normal exit only.
ProcAfterExit_NormalOnly(why) == IF why = "normal" THEN "terminated" ELSE "alive"

\* Lines 110-111: leaving the two async with blocks stops the child and
\* closes its streams, whatever made the scope end.
ProcAfterExit(why) == "terminated"

\* Lines 113-128 and the caller's side: how connect() ends for each reason
\* the scope was left.
Outcome(why) ==
    IF why = "normal" THEN "returned"
    ELSE IF why = "timeout" THEN "TimeoutError"
    ELSE IF why = "cancelled" THEN "CancelledError"
    ELSE IF why = "handshake" THEN "handshake_error"
    ELSE "body_error"

Servers == {"srv"}

\* The names a configuration can hold, and the entry points that open the
\* scope: connect() itself, list_tools (line 132) and call_tool (line 148).
ServerNames == {"srv", "alt"}

ConnOps == {"connect", "list_tools", "call_tool"}

\* Mutant of Configured: every name passes the lookup.
Configured_Always(name, servers) == TRUE

\* Line 66: server_name in self.config.servers.
Configured(name, servers) == name \in servers

ConnIdle ==
    [pc |-> "idle", op |-> "connect", servers |-> Servers,
     name |-> "srv", env |-> <<>>, args |-> <<>>,
     amb |-> [A |-> "U", B |-> "U"], childEnv |-> <<>>, childArgs |-> <<>>,
     proc |-> "none", streams |-> "none", elapsed |-> 0, why |-> "none",
     out |-> "none", err |-> <<>>]

\* Line 81, get_server_config (lines 64-73).
ConnLookup ==
    /\ cn.pc = "idle"
    /\ cn' = IF Configured(cn.name, cn.servers) THEN [cn EXCEPT !.pc = "build_env"]
             ELSE [cn EXCEPT !.pc = "ended", !.out = "not_found",
                             !.err = <<"ValueError", cn.name, cn.servers>>]
    /\ UNCHANGED <<startVars, serveVars, clientVars, lg, wr, sp, pp, tc>>

\* Line 84: the child's environment, the resolved env entries on top of
\* os.environ.
ConnBuildEnv ==
    /\ cn.pc = "build_env"
    /\ cn' = [cn EXCEPT !.pc = "check_env", !.childEnv = Resolved(cn.env, cn.amb)]
    /\ UNCHANGED <<startVars, serveVars, clientVars, lg, wr, sp, pp, tc>>

\* Lines 86-100: the first entry that looks required and whose variable is
\* missing raises the missing-variable error.
ConnCheckEnv ==
    /\ cn.pc = "check_env"
    /\ cn' = IF \E k \in 1..Len(cn.env) : Missing(cn.env[k], cn.amb)
             THEN LET k == CHOOSE x \in 1..Len(cn.env) :
                            /\ Missing(cn.env[x], cn.amb)
                            /\ \A y \in 1..(x - 1) : ~Missing(cn.env[y], cn.amb) IN
                  [cn EXCEPT !.pc = "ended", !.out = "missing_env",
                             !.err = <<"ValueError", RequiredName(cn.env[k]), cn.name>>]
             ELSE [cn EXCEPT !.pc = "spawn"]
    /\ UNCHANGED <<startVars, serveVars, clientVars, lg, wr, sp, pp, tc>>

\* Lines 102-110: stdio_client starts the subprocess, or the command is not
\* found (lines 121-128).
ConnSpawn ==
    /\ cn.pc = "spawn"
    /\ \/ cn' = [cn EXCEPT !.pc = "init", !.proc = "alive", !.streams = "open",
                           !.elapsed = 0,
                           !.childArgs = SpawnArgs(cn.args, cn.amb)]
       \/ cn' = [cn EXCEPT !.pc = "ended", !.out = "command_not_found",
                           !.err = <<"FileNotFoundError", cn.name>>]
    /\ UNCHANGED <<startVars, serveVars, clientVars, lg, wr, sp, pp, tc>>

\* The clock moves on while the scope is open.
ConnTick ==
    /\ cn.pc \in {"init", "body"}
    /\ ~Deadline(cn.elapsed)
    /\ cn' = [cn EXCEPT !.elapsed = @ + 1]
    /\ UNCHANGED <<startVars, serveVars, clientVars, lg, wr, sp, pp, tc>>

\* Lines 111-113: session.initialize() completes and the session is yielded.
ConnInitialized ==
    /\ cn.pc = "init"
    /\ ~Deadline(cn.elapsed)
    /\ cn' = [cn EXCEPT !.pc = "body"]
    /\ UNCHANGED <<startVars, serveVars, clientVars, lg, wr, sp, pp, tc>>

\* Line 112: the handshake fails.
ConnHandshakeFails ==
    /\ cn.pc = "init"
    /\ ~Deadline(cn.elapsed)
    /\ cn' = [cn EXCEPT !.pc = "teardown", !.why = "handshake"]
    /\ UNCHANGED <<startVars, serveVars, clientVars, lg, wr, sp, pp, tc>>

\* Line 109: the deadline passes inside the scope; asyncio.timeout cancels
\* what is running there.
ConnTimeout ==
    /\ cn.pc \in {"init", "body"}
    /\ Deadline(cn.elapsed)
    /\ cn' = [cn EXCEPT !.pc = "teardown", !.why = "timeout"]
    /\ UNCHANGED <<startVars, serveVars, clientVars, lg, wr, sp, pp, tc>>

\* The caller's task is cancelled while the scope is open.
ConnCancelled ==
    /\ cn.pc \in {"init", "body"}
    /\ ~Deadline(cn.elapsed)
    /\ cn' = [cn EXCEPT !.pc = "teardown", !.why = "cancelled"]
    /\ UNCHANGED <<startVars, serveVars, clientVars, lg, wr, sp, pp, tc>>

\* The body of the scope ends, normally or with an exception.
ConnBodyEnds(why) ==
    /\ cn.pc = "body"
    /\ ~Deadline(cn.elapsed)
    /\ cn' = [cn EXCEPT !.pc = "teardown", !.why = why]
    /\ UNCHANGED <<startVars, serveVars, clientVars, lg, wr, sp, pp, tc>>

\* Lines 110-120: the async with blocks are left, then connect() returns or
\* raises; the timeout error names the server and the command line.
ConnTeardown ==
    /\ cn.pc = "teardown"
    /\ cn' = [cn EXCEPT !.pc = "ended", !.out = Outcome(cn.why),
                        !.proc = ProcAfterExit(cn.why),
                        !.streams = IF ProcAfterExit(cn.why) = "terminated"
                                    THEN "closed" ELSE @,
                        !.err = IF cn.why = "timeout"
                                THEN <<"TimeoutError", cn.name, cn.args>> ELSE @]
    /\ UNCHANGED <<startVars, serveVars, clientVars, lg, wr, sp, pp, tc>>

\* A connect() call on a configured or an unknown server name, with any env
\* mapping, args and ambient environment.
InitConnect ==
    /\ InitStartVars /\ ServeIdle
    /\ pidFile = {} /\ dstate = <<>> /\ logFile = "absent" /\ pending = 0
    /\ reqSrv = "none" /\ cl = <<>> /\ gh = <<>>
    /\ lg = LegacyIdle /\ wr = <<>> /\ sp = <<>> /\ pp = <<>> /\ tc = <<>>
    /\ \E name \in Servers \cup {"other"}, env \in EnvMaps, arg \in ArgValues,
          amb \in Ambients :
        cn = [ConnIdle EXCEPT !.name = name, !.env = env, !.args = <<arg>>,
                              !.amb = amb]

NextConnect ==
    \/ ConnLookup
    \/ ConnBuildEnv
    \/ ConnCheckEnv
    \/ ConnSpawn
    \/ ConnTick
    \/ ConnInitialized
    \/ ConnHandshakeFails
    \/ ConnTimeout
    \/ ConnCancelled
    \/ \E why \in {"normal", "body_exc"} : ConnBodyEnds(why)
    \/ ConnTeardown

SpecConnect == InitConnect /\ [][NextConnect]_vars

\* Any of the three entry points, on any configuration and any name, with
\* no env entry or one whose variable is missing.
InitLookup ==
    /\ InitStartVars /\ ServeIdle
    /\ pidFile = {} /\ dstate = <<>> /\ logFile = "absent" /\ pending = 0
    /\ reqSrv = "none" /\ cl = <<>> /\ gh = <<>>
    /\ lg = LegacyIdle /\ wr = <<>> /\ sp = <<>> /\ pp = <<>> /\ tc = <<>>
    /\ \E op \in ConnOps, servers \in SUBSET ServerNames,
          name \in ServerNames \cup {"other"},
          env \in {<<>>, <<<<Open, "A", Close>>>>}, a \in {"U", "V"} :
        cn = [ConnIdle EXCEPT !.op = op, !.servers = servers, !.name = name,
                              !.env = env, !.args = <<<<"-">>>>,
                              !.amb = [A |-> a, B |-> "U"]]

SpecLookup == InitLookup /\ [][NextConnect]_vars

----------------------------------------------------------------------------
\* Claims about the Session Client.

\* The request has ended: the operation returned or raised.
Ended == cl.pc \in {"returned", "raised"}

\* The client is inside the polling loop of _ensure_daemon_running.
Polling ==
    \/ cl.pc \in {"poll_check", "poll_result", "sleep", "timeout"}
    \/ cl.pc \in {"idr_exists", "idr_read", "idr_alive", "idr_unlink",
                  "idr_connect", "idr_close"} /\ cl.ret = "poll"

StartFailures ==
    {"start_failed_log_tail", "start_failed_log_empty", "start_failed_log_not_found"}

\* C5: a _send_request opens at most one connection of its own, and only
\* after _ensure_daemon_running returned; on that connection it calls
\* write_message exactly once and read_message at most once, after the write;
\* and whichever way it ends (response, error response, no response,
\* exception in the write or the read) no connection is left open.
C5_OneConnectionPerRequest ==
    /\ gh.opens <= 1 /\ gh.writes <= 1 /\ gh.reads <= 1
    /\ gh.opens = 1 => gh.ensured
    /\ gh.writes <= gh.opens /\ gh.reads <= gh.writes
    /\ gh.reads = 1 => gh.sent
    /\ cl.rq = "open" => cl.pc \in {"write", "read", "finally"}
    /\ (gh.opens = 1 /\ cl.pc \in {"read", "finally", "returned", "raised"}) => gh.writes = 1
    /\ Ended => (cl.rq # "open" /\ ~gh.probeOpen /\ (gh.opens = 1 <=> cl.rq = "closed"))

\* C5 witness: a request that ended on an exception in write_message, its
\* connection closed.
C5_Witness ==
    /\ cl.pc = "raised" /\ cl.out = "write_exc"
    /\ gh.opens = 1 /\ gh.writes = 1 /\ gh.reads = 0 /\ cl.rq = "closed"

C7_SpawnAtMostOnce ==
    /\ gh.spawns <= 1
    /\ gh.first = "T" => (gh.spawns = 0 /\ gh.probes = 1 /\ ~Polling)
    /\ (gh.first = "F" /\ cl.pc # "start_daemon") => gh.spawns = 1
    /\ Polling => gh.spawns = 1
    /\ gh.spawns = 1 => gh.first = "F"

\* C7 witness: the second poll after the one spawn has returned.
C7_Witness ==
    /\ cl.pc = "poll_result" /\ gh.probes = 3 /\ gh.spawns = 1

\* C8, the part that holds in every state: polling happens once per retry
\* delay within the timeout; after a poll succeeded there is no more polling
\* and no start failure; the start failure is raised only with the timeout
\* elapsed, and says what the log held (its tail when it had lines, a
\* pointer to it otherwise); and a client inside _ensure_daemon_running can
\* always take its next step, whatever the child does.
C8Safe ==
    /\ cl.elapsed <= TimeoutTicks
    /\ gh.probes <= TimeoutTicks + 1
    /\ gh.pollOk => (~Polling \/ cl.pc = "poll_result") /\ cl.out \notin StartFailures
    /\ cl.out \in StartFailures =>
        /\ Ended /\ gh.spawns = 1 /\ ~gh.ensured /\ cl.elapsed = TimeoutTicks
        /\ gh.logSeen = "lines" <=> cl.out = "start_failed_log_tail"
        /\ gh.logSeen = "absent" <=> cl.out = "start_failed_log_not_found"
    /\ (Polling \/ cl.pc \in {"ensure_first", "start_daemon"}) => ENABLED ClientStep

\* C8: after spawning, _ensure_daemon_running returns as soon as a poll
\* succeeds, raises 'Daemon failed to start' (with the log tail or a pointer
\* to the log) when none succeeds before the timeout, and in every case ends,
\* without waiting for the child.
C8_EnsureTerminates ==
    /\ []C8Safe
    /\ (cl.pc = "start_daemon") ~> (cl.pc = "connect" \/ cl.out \in StartFailures)

\* C8 witness: the start failure raised with the log tail after the timeout.
C8_Witness ==
    /\ cl.pc = "raised" /\ cl.out = "start_failed_log_tail"
    /\ gh.probes = TimeoutTicks + 1 /\ gh.spawns = 1

\* C9: one request calls write_message at most once; after a failed connect,
\* a missing response or an error response it only closes and raises (or,
\* for shutdown, returns), it never goes back to connect or write. Only
\* _is_daemon_running is repeated.
C9_NoResend ==
    /\ gh.writes <= 1
    /\ cl.out \in {"failed_to_connect", "no_response", "daemon_error"} =>
        /\ cl.pc \in {"finally", "returned", "raised"}
        /\ cl.pc = "returned" => cl.op = "shutdown"
        /\ gh.writes = (IF cl.out = "failed_to_connect" THEN 0 ELSE 1)

\* C9 witness: the reachability check ran three times, the request was
\* written once, and the error response was raised.
C9_Witness ==
    /\ cl.pc = "raised" /\ cl.out = "daemon_error"
    /\ gh.probes = 3 /\ gh.writes = 1 /\ gh.opens = 1

\* C10 as claimed: no step of the Session Client changes the socket file,
\* its listener or the pid file.
C10_ClientNeverMutates ==
    [][cl' # cl => (sockFile' = sockFile /\ listening' = listening
                     /\ pidFile' = pidFile)]_vars

\* C10 as amended: no step of the Session Client changes the socket file or
\* its listener; the one change it makes to the pid file is the unlink in
\* _is_daemon_running, after it read from the file the pid of a process that
\* was not alive when it checked.
C10_ClientOnlyDropsStalePid ==
    [][cl' # cl =>
        /\ sockFile' = sockFile /\ listening' = listening
        /\ pidFile' # pidFile =>
            (pidFile' = {} /\ cl.pc = "idr_unlink" /\ gh.deadRead)]_vars

\* C10 witness: _is_daemon_running found the named process dead and has
\* removed the pid file.
C10_Witness ==
    /\ cl.pc \in {"ensure_first", "poll_result"}
    /\ gh.tLive = "F" /\ pidFile = {}

----------------------------------------------------------------------------
\* Claims about a session against one running daemon.

\* Exactly one daemon process runs.
OneDaemon == Cardinality({d \in Daemons : dstate[d] = "running"}) = 1

\* C11: against one running daemon that has answered list_tools, every later
\* request of the session is answered by that same daemon on a connection of
\* its own: the client spawns no daemon, fails neither to connect nor to get
\* a response, and the daemon goes on running through call_tool and status.
C11_SequentialRequests ==
    LET h == gh.hist IN
    (h.stage >= 1 /\ OneDaemon) =>
        /\ Running(h.peer)
        /\ h.base >= 1 =>
            /\ gh.spawns = 0 /\ gh.first \in {"none", "T"}
            /\ cl.peer \in {0, h.peer}
            /\ cl.out \in {"none", "ok", "daemon_error"}
            /\ cl.out = "ok" => (gh.sent /\ gh.opens = 1 /\ gh.reads = 1)

\* C11 witness: list_tools, call_tool and then status were each answered by
\* the one running daemon, the last two without a spawn.
C11_Witness ==
    /\ gh.hist.stage = 3 /\ gh.hist.base = 2 /\ OneDaemon
    /\ cl.pc = "returned" /\ cl.op = "status" /\ gh.spawns = 0

----------------------------------------------------------------------------
\* Claims about connections served side by side.

\* A complete request waits on connection c, which the server has not read.
RequestWaiting(c) ==
    /\ cconn[c] = "open" /\ hpc[c] \in {"none", "read"}
    /\ c2s[c] # <<>> /\ c2s[c][1] = "req"

\* C12: while the handler of the first connection is suspended, a request
\* that waits on any other connection is accepted, read, handled and answered
\* (the response, or the error response, is written), whether or not the
\* first handler ever finishes.
C12_ConcurrentConnections ==
    \A c \in ParConns \ {1} :
        (hpc[1] = "handling" /\ RequestWaiting(c)) ~>
            (nHandled[c] = 1 /\ path[c] \in {"responded", "handler_error", "write_error"})

\* C12 witness: the second connection's client holds its response while the
\* handler of the first connection is still suspended.
C12_Witness ==
    /\ hpc[1] = "handling"
    /\ hpc[2] = "done" /\ path[2] = "responded" /\ Len(s2c[2]) = 1

----------------------------------------------------------------------------
\* Claims about the legacy-daemon cleanup.

\* C13: once _ensure_daemon_running has started a daemon, the legacy-daemon
\* cleanup has run exactly once.
C13_CleanupOnceBeforeSpawn == gh.spawns >= 1 => lg.runs = 1

\* C14: with the legacy paths unset or identical to the current endpoint's,
\* the cleanup sends no signal and deletes no file: the current endpoint's
\* pid file and socket file stay as they were and its daemon keeps running.
C14_CleanupSkipsActive ==
    lg.paths \in {"unset", "same"} =>
        /\ lg.pc \in {"idle", "done"}
        /\ lg.sig = {}
        /\ lg.pid = lg.pid0 /\ lg.sock = lg.sock0
        /\ pidFile = {ToString(1)} /\ sockFile = {1}
        /\ Running(1) /\ listening[1]

\* C14 witness: the cleanup has run and returned on identical paths.
C14_Witness ==
    /\ lg.paths = "same" /\ lg.pc = "done" /\ lg.runs = 1

\* C15: with a legacy endpoint that differs from the current one, the
\* cleanup signals only the process the legacy pid file named, and only
\* after finding it alive; when it returns, the legacy pid file is gone
\* whatever it held and the legacy socket file is gone; it always returns.
C15_CleanupRemovesLegacy ==
    lg.paths = "differs" =>
        /\ lg.pc \in {"idle", "pid_exists", "read", "alive", "kill", "unlink_pid",
                      "sock", "done"}
        /\ \A p \in lg.sig : lg.pid0 = {ToString(p)} /\ lg.sawLive /\ lg.seen = p
        /\ lg.pc = "done" => (lg.pid = {} /\ ~lg.sock /\ lg.runs = 1)
        /\ (lg.pc = "done" /\ lg.sawLive /\ Running(lg.seen)) => lg.seen \in lg.sig
        /\ pidFile = {ToString(1)} /\ sockFile = {1}

\* C15 witness: a legacy pid file that did not parse and a legacy socket
\* file have both been removed, and no signal was sent.
C15_Witness ==
    /\ lg.paths = "differs" /\ lg.pc = "done"
    /\ lg.pid0 = {"junk"} /\ lg.sock0 /\ lg.pid = {} /\ ~lg.sock /\ lg.sig = {}

----------------------------------------------------------------------------
\* IPCMessage.to_bytes / from_bytes (ipc.py lines 31-47). Text is a sequence
\* of code points, bytes are a sequence of numbers 0..255. A JSON value is
\* a string S(text) or an object O(items), items being <<key, value>>
\* pairs in order.

\* ipc.py line 28.
HEADER_SIZE == 4

\* Longest text of an action or of a payload value.
MaxStr == 1

S(text) == [t |-> "s", v |-> text]

O(items) == [t |-> "o", v |-> items]

\* The characters texts are made of: a, the double quote, the backslash
\* and e with acute accent (not ASCII).
Chars == {97, 34, 92, 233}

Texts == UNION {[1..n -> Chars] : n \in 0..MaxStr}

\* The payloads: the empty one, and one entry under an ASCII or a
\* non-ASCII key.
Payloads == {O(<<>>)} \cup {O(<<<<k, S(x)>>>>) : k \in {<<97>>, <<233>>}, x \in Texts}

\* IPCMessage(action, payload), lines 31-36.
Messages == [action : {S(x) : x \in Texts}, payload : Payloads]

\* The keys "action" and "payload" of lines 40 and 47.
ActionKey == <<97, 99, 116, 105, 111, 110>>

PayloadKey == <<112, 97, 121, 108, 111, 97, 100>>

\* One hexadecimal digit as json.dumps writes it.
HexChar(d) == IF d < 10 THEN 48 + d ELSE 87 + d

\* json.dumps of one character with ensure_ascii: quote and backslash get
\* a backslash, anything outside printable ASCII becomes \uXXXX.
DumpChar(c) ==
    IF c = 34 \/ c = 92 THEN <<92, c>>
    ELSE IF c < 32 \/ c > 126
         THEN <<92, 117, HexChar((c \div 4096) % 16), HexChar((c \div 256) % 16),
                HexChar((c \div 16) % 16), HexChar(c % 16)>>
         ELSE <<c>>

RECURSIVE DumpChars(_)
DumpChars(text) ==
    IF text = <<>> THEN <<>> ELSE DumpChar(Head(text)) \o DumpChars(Tail(text))

\* json.dumps of a string.
DumpStr(text) == <<34>> \o DumpChars(text) \o <<34>>

\* json.dumps of a value, with the default separators ", " and ": ".
RECURSIVE JsonDumps(_)
RECURSIVE DumpItems(_)
DumpItems(items) ==
    IF items = <<>> THEN <<>>
    ELSE DumpStr(items[1][1]) \o <<58, 32>> \o JsonDumps(items[1][2])
         \o (IF Len(items) > 1 THEN <<44, 32>> ELSE <<>>) \o DumpItems(Tail(items))

JsonDumps(val) ==
    IF val.t = "s" THEN DumpStr(val.v) ELSE <<123>> \o DumpItems(val.v) \o <<125>>

\* str.encode(): the dumped text is ASCII, one byte per character.
Encode(text) == text

\* Mutant of Pack: the length in little-endian order.
Pack_LittleEndian(n) ==
    <<n % 256, (n \div 256) % 256, (n \div 65536) % 256, (n \div 16777216) % 256>>

\* struct.pack(">I", n), line 41.
Pack(n) ==
    <<(n \div 16777216) % 256, (n \div 65536) % 256, (n \div 256) % 256, n % 256>>

\* struct.unpack(">I", header), line 63.
Unpack(h) == h[1] * 16777216 + h[2] * 65536 + h[3] * 256 + h[4]

\* The JSON body of a message, line 40.
Body(msg) ==
    Encode(JsonDumps(O(<<<<ActionKey, msg.action>>, <<PayloadKey, msg.payload>>>>)))

\* IPCMessage.to_bytes, lines 38-41.
ToBytes(msg) == Pack(Len(Body(msg))) \o Body(msg)

\* bytes.decode(): ASCII bytes are their characters; a byte from 128 on
\* that no continuation byte follows is a decoding error (the only such
\* bytes here are length bytes, followed by a length byte or by "{").
Decode(data) ==
    IF \E k \in 1..Len(data) : data[k] >= 128 THEN <<-1>> ELSE data

ParseFail == [ok |-> FALSE, v |-> S(<<>>), n |-> 0]

Parsed(val, next) == [ok |-> TRUE, v |-> val, n |-> next]

\* The first position from i on that holds no JSON whitespace.
RECURSIVE SkipWs(_, _)
SkipWs(t, i) ==
    IF i <= Len(t) /\ t[i] \in {32, 9, 10, 13} THEN SkipWs(t, i + 1) ELSE i

HexVal(c) ==
    IF c \in 48..57 THEN c - 48
    ELSE IF c \in 97..102 THEN c - 87
    ELSE IF c \in 65..70 THEN c - 55
    ELSE -1

\* The character a one-letter escape stands for, -1 if there is none.
Unescape(e) ==
    IF e \in {34, 92, 47} THEN e
    ELSE IF e = 98 THEN 8 ELSE IF e = 102 THEN 12 ELSE IF e = 110 THEN 10
    ELSE IF e = 114 THEN 13 ELSE IF e = 116 THEN 9 ELSE -1

\* json.loads on a string, from the position after the opening quote.
RECURSIVE ParseStr(_, _, _)
ParseStr(t, i, acc) ==
    IF i > Len(t) THEN ParseFail
    ELSE IF t[i] = 34 THEN Parsed(S(acc), i + 1)
    ELSE IF t[i] < 32 THEN ParseFail
    ELSE IF t[i] # 92 THEN ParseStr(t, i + 1, Append(acc, t[i]))
    ELSE IF i + 1 > Len(t) THEN ParseFail
    ELSE IF t[i + 1] = 117
         THEN IF i + 5 > Len(t) \/ \E k \in 2..5 : HexVal(t[i + k]) < 0
              THEN ParseFail
              ELSE ParseStr(t, i + 6,
                            Append(acc, HexVal(t[i + 2]) * 4096 + HexVal(t[i + 3]) * 256
                                        + HexVal(t[i + 4]) * 16 + HexVal(t[i + 5])))
    ELSE IF Unescape(t[i + 1]) < 0 THEN ParseFail
    ELSE ParseStr(t, i + 2, Append(acc, Unescape(t[i + 1])))

\* A dict taking an item: a key it has keeps its place and gets the value.
PutItem(items, key, val) ==
    IF \E k \in 1..Len(items) : items[k][1] = key
    THEN [k \in 1..Len(items) |->
             IF items[k][1] = key THEN <<key, val>> ELSE items[k]]
    ELSE Append(items, <<key, val>>)

\* json.loads on a value at position i (strings and objects; the texts
\* read here hold no numbers, arrays or literals where a value starts).
RECURSIVE ParseVal(_, _)
RECURSIVE ParseItems(_, _, _)
ParseItems(t, i, acc) ==
    IF i > Len(t) \/ t[i] # 34 THEN ParseFail
    ELSE LET key == ParseStr(t, i + 1, <<>>) IN
         IF ~key.ok THEN ParseFail
         ELSE LET c == SkipWs(t, key.n) IN
              IF c > Len(t) \/ t[c] # 58 THEN ParseFail
              ELSE LET val == ParseVal(t, SkipWs(t, c + 1)) IN
                   IF ~val.ok THEN ParseFail
                   ELSE LET e == SkipWs(t, val.n)
                            items == PutItem(acc, key.v.v, val.v) IN
                        IF e > Len(t) THEN ParseFail
                        ELSE IF t[e] = 125 THEN Parsed(O(items), e + 1)
                        ELSE IF t[e] = 44 THEN ParseItems(t, SkipWs(t, e + 1), items)
                        ELSE ParseFail

ParseVal(t, i) ==
    IF i > Len(t) THEN ParseFail
    ELSE IF t[i] = 34 THEN ParseStr(t, i + 1, <<>>)
    ELSE IF t[i] = 123
         THEN LET j == SkipWs(t, i + 1) IN
              IF j <= Len(t) /\ t[j] = 125 THEN Parsed(O(<<>>), j + 1)
              ELSE ParseItems(t, j, <<>>)
    ELSE ParseFail

\* json.loads: one value and nothing but whitespace around it.
JsonLoads(t) ==
    LET r == ParseVal(t, SkipWs(t, 1)) IN
    IF r.ok /\ SkipWs(t, r.n) > Len(t) THEN r ELSE ParseFail

HasKey(obj, key) == \E k \in 1..Len(obj.v) : obj.v[k][1] = key

GetKey(obj, key) == obj.v[CHOOSE k \in 1..Len(obj.v) : obj.v[k][1] = key][2]

Raised(what) == [err |-> what, msg |-> [action |-> S(<<>>), payload |-> O(<<>>)]]

Returned(msg) == [err |-> "none", msg |-> msg]

\* IPCMessage.from_bytes, lines 43-47.
FromBytes(data) ==
    LET text == Decode(data) IN
    IF text = <<-1>> THEN Raised("UnicodeDecodeError")
    ELSE LET r == JsonLoads(text) IN
         IF ~r.ok THEN Raised("JSONDecodeError")
         ELSE IF r.v.t # "o" THEN Raised("TypeError")
         ELSE IF ~HasKey(r.v, ActionKey) THEN Raised("KeyError")
         ELSE Returned([action |-> GetKey(r.v, ActionKey),
                        payload |-> IF HasKey(r.v, PayloadKey)
                                    THEN GetKey(r.v, PayloadKey) ELSE O(<<>>)])

\* Mutant of FrameBody: the whole frame.
FrameBody_Whole(frame) == frame

\* The bytes of a frame after its length prefix, as lines 58-67 take them.
FrameBody(frame) == SubSeq(frame, HEADER_SIZE + 1, Len(frame))

\* A message is serialized, then the bytes are handed to from_bytes: all of
\* them, or those after the length prefix.
CodecIdle == [pc |-> "new", msg |-> [action |-> S(<<>>), payload |-> O(<<>>)],
              bytes |-> <<>>, whole |-> Raised("none"), body |-> Raised("none")]

CodecToBytes ==
    /\ wr.pc = "new"
    /\ wr' = [wr EXCEPT !.pc = "bytes", !.bytes = ToBytes(wr.msg)]
    /\ UNCHANGED <<startVars, serveVars, clientVars, lg, cn, sp, pp, tc>>

CodecFromWhole ==
    /\ wr.pc = "bytes"
    /\ wr' = [wr EXCEPT !.pc = "whole", !.whole = FromBytes(wr.bytes)]
    /\ UNCHANGED <<startVars, serveVars, clientVars, lg, cn, sp, pp, tc>>

CodecFromBody ==
    /\ wr.pc = "bytes"
    /\ wr' = [wr EXCEPT !.pc = "body", !.body = FromBytes(FrameBody(wr.bytes))]
    /\ UNCHANGED <<startVars, serveVars, clientVars, lg, cn, sp, pp, tc>>

InitCodec ==
    /\ InitStartVars /\ ServeIdle
    /\ pidFile = {} /\ dstate = <<>> /\ logFile = "absent" /\ pending = 0
    /\ reqSrv = "none" /\ cl = <<>> /\ gh = <<>>
    /\ lg = LegacyIdle /\ cn = <<>> /\ sp = <<>> /\ pp = <<>> /\ tc = <<>>
    /\ \E msg \in Messages : wr = [CodecIdle EXCEPT !.msg = msg]

NextCodec == CodecToBytes \/ CodecFromWhole \/ CodecFromBody

SpecCodec == InitCodec /\ [][NextCodec]_vars

----------------------------------------------------------------------------
\* read_message (ipc.py lines 50-74) on a stream of frames that arrive in
\* chunks of any size and that the peer may close at any point.

\* Frames a stream carries.
MaxWireFrames == 2

\* The messages sent over the stream.
WireMessages ==
    {[action |-> S(<<>>), payload |-> O(<<>>)],
     [action |-> S(<<97>>), payload |-> O(<<<<<<97>>, S(<<92>>)>>>>)],
     [action |-> S(<<233>>), payload |-> O(<<<<<<233>>, S(<<34>>)>>>>)]}

\* What a peer writes as one frame: a serialized message, or a length
\* prefix of 0 and no body.
WireFrames ==
    {[zero |-> FALSE, msg |-> msg] : msg \in WireMessages}
        \cup {[zero |-> TRUE, msg |-> [action |-> S(<<>>), payload |-> O(<<>>)]]}

FrameBytes(f) == IF f.zero THEN Pack(0) ELSE ToBytes(f.msg)

RECURSIVE StreamBytes(_)
StreamBytes(frames) ==
    IF frames = <<>> THEN <<>>
    ELSE FrameBytes(Head(frames)) \o StreamBytes(Tail(frames))

\* The stream offset at which frame k ends.
FrameEnd(frames, k) == Len(StreamBytes(SubSeq(frames, 1, k)))

\* read_message returning None.
NoMessage == [err |-> "None", msg |-> [action |-> S(<<>>), payload |-> O(<<>>)]]

\* Mutant of OnIncomplete: a short read of the body is raised.
OnIncomplete_BodyRaises(where) ==
    IF where = "body" THEN Raised("IncompleteReadError") ELSE NoMessage

\* Lines 59-61 and 68-72: IncompleteReadError is caught and None returned.
OnIncomplete(where) == NoMessage

\* Line 74: return IPCMessage.from_bytes(data).
ParseBody(data) == FromBytes(data)

\* The bytes in the reader's buffer.
Avail == wr.sent - wr.used

WireIdle ==
    [pc |-> "header", frames |-> <<>>, stream |-> <<>>, sent |-> 0, used |-> 0,
     eof |-> FALSE, len |-> 0, got |-> <<>>, ends |-> <<>>, short |-> "none"]

\* k more bytes of the stream reach the reader.
WireChunk(k) ==
    /\ ~wr.eof
    /\ wr.sent + k <= Len(wr.stream)
    /\ wr' = [wr EXCEPT !.sent = @ + k]
    /\ UNCHANGED <<startVars, serveVars, clientVars, lg, cn, sp, pp, tc>>

\* The peer closes; what has not reached the reader never will.
WirePeerClose ==
    /\ ~wr.eof
    /\ wr' = [wr EXCEPT !.eof = TRUE]
    /\ UNCHANGED <<startVars, serveVars, clientVars, lg, cn, sp, pp, tc>>

\* Lines 58 and 63: readexactly(HEADER_SIZE) returns and the length is
\* unpacked.
WireReadHeader ==
    /\ wr.pc = "header"
    /\ Avail >= HEADER_SIZE
    /\ wr' = [wr EXCEPT !.pc = "body", !.used = @ + HEADER_SIZE,
                        !.len = Unpack(SubSeq(wr.stream, wr.used + 1,
                                              wr.used + HEADER_SIZE))]
    /\ UNCHANGED <<startVars, serveVars, clientVars, lg, cn, sp, pp, tc>>

\* Lines 59-61: end of stream before the header is complete.
WireHeaderShort ==
    /\ wr.pc = "header"
    /\ wr.eof /\ Avail < HEADER_SIZE
    /\ wr' = [wr EXCEPT !.pc = "done", !.used = wr.sent,
                        !.got = Append(@, OnIncomplete("header")),
                        !.ends = Append(@, wr.sent),
                        !.short = "header"]
    /\ UNCHANGED <<startVars, serveVars, clientVars, lg, cn, sp, pp, tc>>

\* Lines 67 and 74: readexactly(length) returns and the body is parsed; a
\* returned message is followed by the next read_message call.
WireReadBody ==
    /\ wr.pc = "body"
    /\ Avail >= wr.len
    /\ LET res == ParseBody(SubSeq(wr.stream, wr.used + 1, wr.used + wr.len)) IN
       wr' = [wr EXCEPT !.pc = IF res.err = "none" THEN "header" ELSE "done",
                        !.used = @ + wr.len,
                        !.got = Append(@, res),
                        !.ends = Append(@, wr.used + wr.len)]
    /\ UNCHANGED <<startVars, serveVars, clientVars, lg, cn, sp, pp, tc>>

\* Lines 68-72: end of stream before the body is complete.
WireBodyShort ==
    /\ wr.pc = "body"
    /\ wr.eof /\ Avail < wr.len
    /\ wr' = [wr EXCEPT !.pc = "done", !.used = wr.sent,
                        !.got = Append(@, OnIncomplete("body")),
                        !.ends = Append(@, wr.sent),
                        !.short = "body"]
    /\ UNCHANGED <<startVars, serveVars, clientVars, lg, cn, sp, pp, tc>>

InitWire ==
    /\ InitStartVars /\ ServeIdle /\ sockFile = {}
    /\ pidFile = {} /\ dstate = <<>> /\ logFile = "absent" /\ pending = 0
    /\ reqSrv = "none" /\ cl = <<>> /\ gh = <<>>
    /\ lg = LegacyIdle /\ cn = <<>> /\ sp = <<>> /\ pp = <<>> /\ tc = <<>>
    /\ \E n \in 1..MaxWireFrames : \E frames \in [1..n -> WireFrames] :
        wr = [WireIdle EXCEPT !.frames = frames, !.stream = StreamBytes(frames)]

NextWire ==
    \/ \E k \in 1..Len(wr.stream) : WireChunk(k)
    \/ WirePeerClose
    \/ WireReadHeader
    \/ WireHeaderShort
    \/ WireReadBody
    \/ WireBodyShort

SpecWire == InitWire /\ [][NextWire]_vars

----------------------------------------------------------------------------
\* _start_daemon (session.py lines 161-204) step by step, and the endpoint
\* the client and the started daemon each resolve. An environment is what it
\* holds under MCPL_SESSION_ID ("unset" for no entry) and the rest.

\* What the ambient environment can hold under MCPL_SESSION_ID.
AmbientIds == {"unset", "x", "y"}

\* The session ids a process derives for itself when none is forced.
DerivedIds == {"c", "d"}

\* get_session_id(): the forced id if the environment has one, else the
\* id the process derives for itself.
SessionIdOf(env, derived) == IF env.sid # "unset" THEN env.sid ELSE derived

\* get_socket_path / get_pid_file_path / get_log_file_path: the endpoint of
\* a session id.
EndpointOf(sid) == [sock |-> <<"sock", sid>>, pid |-> <<"pid", sid>>, log |-> <<"log", sid>>]

\* Mutant of DaemonEnv: the child inherits the environment as it is.
DaemonEnv_Inherit(env, sid) == env

\* Lines 174-175: a copy of os.environ with MCPL_SESSION_ID set to the
\* client's session id.
DaemonEnv(env, sid) == [env EXCEPT !.sid = sid]

SpawnIdle ==
    [pc |-> "cmd", ambient |-> [sid |-> "unset", rest |-> "rest"],
     cderived |-> "c", dderived |-> "d", cfg |-> FALSE, win |-> FALSE,
     cmd |-> <<>>, denv |-> <<>>, logOpen |-> <<>>, child |-> <<>>,
     dend |-> <<>>, cend |-> <<>>]

\* Lines 165-170: the daemon's command line.
SpawnBuildCmd ==
    /\ sp.pc = "cmd"
    /\ sp' = [sp EXCEPT !.pc = "env",
                        !.cmd = <<"python", "-m", "mcp_launchpad.daemon">>
                                \o (IF sp.cfg THEN <<"--config", "path">> ELSE <<>>)]
    /\ UNCHANGED <<startVars, serveVars, clientVars, lg, cn, wr, pp, tc>>

\* Lines 174-175.
SpawnBuildEnv ==
    /\ sp.pc = "env"
    /\ sp' = [sp EXCEPT !.pc = "log",
                        !.denv = DaemonEnv(sp.ambient,
                                           SessionIdOf(sp.ambient, sp.cderived))]
    /\ UNCHANGED <<startVars, serveVars, clientVars, lg, cn, wr, pp, tc>>

\* Lines 178-180: the log file of the client's endpoint is opened for
\* writing.
SpawnOpenLog ==
    /\ sp.pc = "log"
    /\ sp' = [sp EXCEPT !.pc = "popen",
                        !.logOpen = EndpointOf(SessionIdOf(sp.ambient, sp.cderived)).log]
    /\ UNCHANGED <<startVars, serveVars, clientVars, lg, cn, wr, pp, tc>>

\* Lines 183-204: Popen, detached, with the built environment and the log
\* file as stdout and stderr.
SpawnPopen ==
    /\ sp.pc = "popen"
    /\ sp' = [sp EXCEPT !.pc = "spawned",
                        !.child = [cmd |-> sp.cmd, env |-> sp.denv, out |-> sp.logOpen,
                                   detach |-> IF sp.win
                                              THEN "DETACHED_PROCESS|CREATE_NEW_PROCESS_GROUP"
                                              ELSE "start_new_session"]]
    /\ UNCHANGED <<startVars, serveVars, clientVars, lg, cn, wr, pp, tc>>

\* The started daemon resolves its endpoint from its own environment.
DaemonResolveEndpoint ==
    /\ sp.pc = "spawned"
    /\ sp.dend = <<>>
    /\ sp' = [sp EXCEPT !.dend = EndpointOf(SessionIdOf(sp.child.env, sp.dderived))]
    /\ UNCHANGED <<startVars, serveVars, clientVars, lg, cn, wr, pp, tc>>

\* The client polls (lines 107-110, 138): the endpoint it looks at.
ClientPollEndpoint ==
    /\ sp.pc = "spawned"
    /\ sp.cend = <<>>
    /\ sp' = [sp EXCEPT !.cend = EndpointOf(SessionIdOf(sp.ambient, sp.cderived))]
    /\ UNCHANGED <<startVars, serveVars, clientVars, lg, cn, wr, pp, tc>>

InitSpawn ==
    /\ InitStartVars /\ ServeIdle /\ sockFile = {}
    /\ pidFile = {} /\ dstate = <<>> /\ logFile = "absent" /\ pending = 0
    /\ reqSrv = "none" /\ cl = <<>> /\ gh = <<>>
    /\ lg = LegacyIdle /\ cn = <<>> /\ wr = <<>> /\ pp = <<>> /\ tc = <<>>
    /\ \E a \in AmbientIds, c \in DerivedIds, d \in DerivedIds,
          cfg \in BOOLEAN, win \in BOOLEAN :
        sp = [SpawnIdle EXCEPT !.ambient.sid = a, !.cderived = c, !.dderived = d,
                               !.cfg = cfg, !.win = win]

NextSpawn ==
    \/ SpawnBuildCmd
    \/ SpawnBuildEnv
    \/ SpawnOpenLog
    \/ SpawnPopen
    \/ DaemonResolveEndpoint
    \/ ClientPollEndpoint

SpecSpawn == InitSpawn /\ [][NextSpawn]_vars

----------------------------------------------------------------------------
\* WindowsIPCServer on one connection (ipc.py lines 206-286), next to
\* UnixIPCServer serving the same request on connection 1. Sizes are counted
\* in units; the pipe is of message type, so every WriteFile of the client
\* is one message of the pipe and a ReadFile takes one message.

\* Longest request frame, in units.
MaxPipeLen == 3

\* BUFFER_SIZE (lines 215, 251) in units: a frame of more units does not
\* fit the server's one ReadFile.
PipeBuffer == 2

RECURSIVE SumSeq(_)
SumSeq(q) == IF q = <<>> THEN 0 ELSE Head(q) + SumSeq(Tail(q))

\* The ways a client can write a frame of n units in pieces.
Chunkings(n) == {q \in UNION {[1..k -> 1..n] : k \in 1..n} : SumSeq(q) = n}

\* What the handler does with the request: it returns, or raises e.
HandlerReturns == [cls |-> "none", arg |-> ""]

PipeIdle ==
    [pc |-> "listen", n |-> 1, chunks |-> <<1>>, written |-> 0, pipe |-> <<>>,
     will |-> HandlerReturns, how |-> "none", s2c |-> <<>>, seen |-> <<>>]

\* Lines 239-243: ConnectNamedPipe returns, the client has opened the pipe.
PipeConnect ==
    /\ pp.pc = "listen"
    /\ pp' = [pp EXCEPT !.pc = "read"]
    /\ UNCHANGED <<startVars, serveVars, clientVars, lg, cn, wr, sp, tc>>

\* The client writes the next piece of its request (PipeWriter.write,
\* lines 416-423).
PipeClientWrite ==
    /\ pp.pc \notin {"listen", "closed"}
    /\ pp.chunks # <<>>
    /\ pp' = [pp EXCEPT !.chunks = Tail(@), !.written = @ + Head(pp.chunks),
                        !.pipe = Append(@, [size |-> Head(pp.chunks),
                                            whole |-> Head(pp.chunks) = pp.n])]
    /\ UNCHANGED <<startVars, serveVars, clientVars, lg, cn, wr, sp, tc>>

\* Lines 257-271: one ReadFile of up to BUFFER_SIZE bytes. A message that
\* does not fit makes ReadFile fail (more data); a message that is not the
\* whole frame is cut-off JSON and from_bytes raises (caught at line 285).
PipeReadFile ==
    /\ pp.pc = "read"
    /\ pp.pipe # <<>>
    /\ LET msg == Head(pp.pipe)
           success == msg.size <= PipeBuffer IN
       pp' = [pp EXCEPT !.pipe = Tail(@),
                        !.pc = IF success /\ msg.whole THEN "handle" ELSE "close",
                        !.how = IF ~success THEN "more_data"
                                ELSE IF ~msg.whole THEN "parse_error" ELSE "message"]
    /\ UNCHANGED <<startVars, serveVars, clientVars, lg, cn, wr, sp, tc>>

\* Line 272 and lines 285-286: the handler returns, or raises and the
\* exception is logged.
PipeHandler ==
    /\ pp.pc = "handle"
    /\ pp' = [pp EXCEPT !.pc = IF pp.will = HandlerReturns THEN "write" ELSE "close",
                        !.how = IF pp.will = HandlerReturns THEN @ ELSE "handler_error"]
    /\ UNCHANGED <<startVars, serveVars, clientVars, lg, cn, wr, sp, tc>>

\* Lines 275-284: the response is written with one WriteFile.
PipeWriteFile ==
    /\ pp.pc = "write"
    /\ pp' = [pp EXCEPT !.pc = "close", !.s2c = Append(@, HandlerResult),
                        !.how = "responded"]
    /\ UNCHANGED <<startVars, serveVars, clientVars, lg, cn, wr, sp, tc>>

\* Line 245: the handle is closed.
PipeCloseHandle ==
    /\ pp.pc = "close"
    /\ pp' = [pp EXCEPT !.pc = "closed"]
    /\ UNCHANGED <<startVars, serveVars, clientVars, lg, cn, wr, sp, tc>>

\* The client reads (PipeReader.readexactly under read_message, lines
\* 393-406): a response that was written, or, the handle closed and nothing
\* left, the end of the stream.
PipeClientRead ==
    /\ Len(pp.seen) < Len(pp.s2c) \/ (pp.pc = "closed" /\ Len(pp.seen) = Len(pp.s2c))
    /\ pp' = [pp EXCEPT !.seen = IF Len(@) < Len(pp.s2c)
                                 THEN Append(@, pp.s2c[Len(@) + 1])
                                 ELSE Append(@, "eof")]
    /\ UNCHANGED <<startVars, serveVars, clientVars, lg, cn, wr, sp, tc>>

\* One request, of any length and in any pieces, and a handler that
\* returns or raises; UnixIPCServer is given the same request.
InitPipe ==
    /\ ServeReady({1}) /\ SessionIdle
    /\ lg = LegacyIdle /\ cn = <<>> /\ wr = <<>> /\ sp = <<>> /\ tc = <<>>
    /\ \E n \in 1..MaxPipeLen : \E q \in Chunkings(n) :
       \E will \in {HandlerReturns} \cup Excs :
        pp = [PipeIdle EXCEPT !.n = n, !.chunks = q, !.will = will]

NextPipe ==
    \/ ClientConnect(1)
    \/ ClientRequest(1)
    \/ ServerStep(1)
    \/ PipeConnect
    \/ PipeClientWrite
    \/ PipeReadFile
    \/ PipeHandler
    \/ PipeWriteFile
    \/ PipeCloseHandle
    \/ PipeClientRead

SpecPipe == InitPipe /\ [][NextPipe]_vars

----------------------------------------------------------------------------
\* Two Session Clients at one endpoint: the one followed step by step, and a
\* second invocation whose _ensure_daemon_running (session.py lines 97-110)
\* takes its steps in between. The daemons they start go through
\* UnixIPCServer.start() step by step.

\* The daemon the second client starts.
PeerChild == MaxChildren + 1

\* A daemon that answers at the endpoint: what _is_daemon_running looks for.
Reachable ==
    /\ \E t \in pidFile : NamesPid(t) /\ Running(NamedPid(t))
    /\ ConnectUnix(sockFile)

\* The second client's _ensure_daemon_running up to its Popen: its check finds
\* no daemon (removing a pid file that names a dead process, lines 144-147)
\* and _start_daemon opens the log and starts its child.
PeerSpawn ==
    /\ dstate[PeerChild] = "unborn"
    /\ ~Reachable
    /\ pidFile' = IF \E t \in pidFile : NamesPid(t) /\ ~Running(NamedPid(t))
                  THEN {} ELSE pidFile
    /\ dstate' = [dstate EXCEPT ![PeerChild] = "running"]
    /\ logFile' = "empty"
    /\ UNCHANGED <<sideVars, startVars, serveVars, pending, reqSrv, cl, gh>>

\* A running daemon's UnixIPCServer.start(), lines 105-120.
DaemonStart(d) ==
    /\ Running(d)
    /\ \/ StartCheckExists(d)
       \/ ProbeSocket(d)
       \/ UnlinkStale(d)
       \/ ServerRemoveExisting(d)
       \/ ServerBind(d)

\* A daemon whose start() raised ends without touching the endpoint.
DaemonGivesUp(d) ==
    /\ Running(d)
    /\ spc[d] \in {"conflict", "failed"}
    /\ dstate' = [dstate EXCEPT ![d] = "dead"]
    /\ UNCHANGED <<sideVars, startVars, serveVars, pidFile, logFile, pending, reqSrv, cl, gh>>

PeerDaemonStep ==
    \/ \E d \in Daemons : DaemonBoot(d)
    \/ \E d \in Daemons : \E text \in PidTexts(d) : StartupWritePid(d, text)
    \/ \E d \in Daemons : DaemonStart(d)
    \/ \E d \in Daemons : DaemonGivesUp(d)
    \/ \E a \in {"result", "error"} : DaemonAnswer(a)

NextPeers ==
    \/ \E o \in {"status"} : BeginRequest(o)
    \/ ClientBody
    \/ PeerSpawn
    \/ PeerDaemonStep

SpecPeers == InitClient /\ [][NextPeers]_vars

----------------------------------------------------------------------------
\* The tool cache (ToolCache): the index file, the metadata file and one
\* refresh() call over the configured servers.

\* Configured servers a refresh() goes over.
NumCacheServers == 2

\* Instants of the clock, counted in hours.
MaxClock == 3

\* Modification times the config file can take.
MaxMtime == 2

\* The ttl of the cache in hours of the clock.
TtlHours == 1

CacheServers == 1..NumCacheServers

\* The tools the servers can report: one per server.
CacheTools == {<<s, "tool">> : s \in CacheServers}

\* A file of the cache: absent, unparsable, or parsed to its content.
NoFile == [st |-> "none", updated |-> 0, mtime |-> 0, tools |-> {}]
BadFile == [st |-> "bad", updated |-> 0, mtime |-> 0, tools |-> {}]
MetaFile(updated, mtime) == [st |-> "ok", updated |-> updated, mtime |-> mtime, tools |-> {}]
IndexFile(tools) == [st |-> "ok", updated |-> 0, mtime |-> 0, tools |-> tools]

\* _load_tools: the tools of the index file, the empty list when the file
\* is missing or does not parse.
LoadTools(index) == IF index.st = "ok" THEN index.tools ELSE {}

\* Mutant of IsValid: the age alone decides.
IsValid_TtlOnly(meta, now, mtime, ttl) ==
    meta.st = "ok" /\ now - meta.updated <= ttl

\* is_cache_valid(ttl): the metadata file exists and parses, its age is within
\* the ttl, and the config mtime it recorded is the config file's current one.
IsValid(meta, now, mtime, ttl) ==
    /\ meta.st = "ok"
    /\ now - meta.updated <= ttl
    /\ meta.mtime = mtime

\* Mutant of UsesCache: every refresh() goes to the servers.
UsesCache_Never(force, valid) == FALSE

\* refresh(force): the cached list is returned when force is false and the
\* cache is valid.
UsesCache(force, valid) == ~force /\ valid

\* Mutant of RefreshFails: one failed server fails the refresh.
RefreshFails_AnyFailure(nfail, n) == nfail > 0

\* refresh(): the aggregate error is raised when every server failed.
RefreshFails(nfail, n) == nfail = n

\* What list_tools of one server can do: return a list of its tools (which
\* may be empty) or raise.
NotAsked == [st |-> "none", tools |-> {}]
ListRaised == [st |-> "raised", tools |-> {}]
ListOutcomes(s) ==
    {ListRaised} \cup {[st |-> "ok", tools |-> t] : t \in SUBSET {<<s, "tool">>}}

\* The servers that answered, and the tools they returned.
Failed(res) == {s \in CacheServers : res[s].st = "raised"}
Fetched(res) == UNION {res[s].tools : s \in CacheServers}

CacheIdle ==
    [pc |-> "idle", index |-> NoFile, meta |-> NoFile, mtime |-> 1, now |-> 0,
     force |-> FALSE, valid |-> FALSE, touched |-> FALSE,
     index0 |-> NoFile, meta0 |-> NoFile,
     next |-> 1, res |-> [s \in CacheServers |-> NotAsked], calls |-> 0,
     out |-> "none", tools |-> {}]

\* The clock advances.
CacheTick ==
    /\ tc.now < MaxClock
    /\ tc' = [tc EXCEPT !.now = tc.now + 1]
    /\ UNCHANGED <<startVars, serveVars, clientVars, lg, cn, wr, sp, pp>>

\* The config file is rewritten: its mtime changes.
CacheConfigTouched ==
    /\ tc.mtime < MaxMtime
    /\ tc' = [tc EXCEPT !.mtime = tc.mtime + 1, !.touched = TRUE]
    /\ UNCHANGED <<startVars, serveVars, clientVars, lg, cn, wr, sp, pp>>

\* is_cache_valid(): one call, its result kept in valid.
CacheIsValid ==
    /\ tc.pc = "idle"
    /\ tc' = [tc EXCEPT !.pc = "checked",
                        !.valid = IsValid(tc.meta, tc.now, tc.mtime, TtlHours)]
    /\ UNCHANGED <<startVars, serveVars, clientVars, lg, cn, wr, sp, pp>>

\* refresh(force) is entered: with a valid cache and force false the cached
\* list is returned at once; otherwise the servers are gone over.
CacheRefresh(force) ==
    /\ tc.pc = "idle"
    /\ LET valid == IsValid(tc.meta, tc.now, tc.mtime, TtlHours)
           call == [tc EXCEPT !.force = force, !.valid = valid,
                              !.index0 = tc.index, !.meta0 = tc.meta,
                              !.next = 1, !.calls = 0,
                              !.res = [s \in CacheServers |-> NotAsked],
                              !.out = "none", !.tools = {}]
       IN  IF UsesCache(force, valid)
           THEN tc' = [call EXCEPT !.pc = "done", !.out = "returned",
                                   !.tools = LoadTools(tc.index)]
           ELSE tc' = [call EXCEPT !.pc = "fetch"]
    /\ UNCHANGED <<startVars, serveVars, clientVars, lg, cn, wr, sp, pp>>

\* The next server's list_tools is called; an error it raises is swallowed
\* and the server contributes no tools.
CacheListTools ==
    /\ tc.pc = "fetch"
    /\ tc.next <= NumCacheServers
    /\ \E o \in ListOutcomes(tc.next) :
        tc' = [tc EXCEPT !.res[tc.next] = o, !.calls = tc.calls + 1,
                         !.next = tc.next + 1]
    /\ UNCHANGED <<startVars, serveVars, clientVars, lg, cn, wr, sp, pp>>

\* Every server failed: the aggregate error is raised and the files stay.
CacheRaise ==
    /\ tc.pc = "fetch"
    /\ tc.next > NumCacheServers
    /\ RefreshFails(Cardinality(Failed(tc.res)), NumCacheServers)
    /\ tc' = [tc EXCEPT !.pc = "done", !.out = "Failed to connect to any servers"]
    /\ UNCHANGED <<startVars, serveVars, clientVars, lg, cn, wr, sp, pp>>

\* At least one server answered: the list replaces the index file and the
\* metadata is rewritten with the current time and config mtime.
CacheSave ==
    /\ tc.pc = "fetch"
    /\ tc.next > NumCacheServers
    /\ ~RefreshFails(Cardinality(Failed(tc.res)), NumCacheServers)
    /\ tc' = [tc EXCEPT !.pc = "done", !.out = "returned",
                        !.tools = Fetched(tc.res),
                        !.index = IndexFile(Fetched(tc.res)),
                        !.meta = MetaFile(tc.now, tc.mtime),
                        !.touched = FALSE]
    /\ UNCHANGED <<startVars, serveVars, clientVars, lg, cn, wr, sp, pp>>

\* The caller has its result; the cache is ready for the next call.
CacheCallEnds ==
    /\ tc.pc \in {"checked", "done"}
    /\ tc' = [CacheIdle EXCEPT !.index = tc.index, !.meta = tc.meta,
                               !.mtime = tc.mtime, !.now = tc.now,
                               !.touched = tc.touched]
    /\ UNCHANGED <<startVars, serveVars, clientVars, lg, cn, wr, sp, pp>>

InitCache ==
    /\ InitStartVars /\ sockFile = {} /\ ServeIdle /\ SessionIdle
    /\ lg = LegacyIdle /\ cn = <<>> /\ wr = <<>> /\ sp = <<>> /\ pp = <<>>
    /\ \E now \in 0..MaxClock, mtime \in 1..MaxMtime :
       \E meta \in {NoFile, BadFile} \cup
                   {MetaFile(u, m) : u \in 0..now, m \in {mtime - 1, mtime}} :
       \E index \in {NoFile, BadFile, IndexFile({}), IndexFile(CacheTools)} :
        tc = [CacheIdle EXCEPT !.now = now, !.mtime = mtime, !.meta = meta,
                               !.index = index]

NextCache ==
    \/ CacheTick
    \/ CacheConfigTouched
    \/ CacheIsValid
    \/ \E force \in BOOLEAN : CacheRefresh(force)
    \/ CacheListTools
    \/ CacheRaise
    \/ CacheSave
    \/ CacheCallEnds

SpecCache == InitCache /\ [][NextCache]_vars

----------------------------------------------------------------------------
\* Claims about ConnectionManager.connect().

\* connect() has got past the check of the env entries.
PastEnvCheck == cn.pc \notin {"idle", "build_env", "check_env"} /\ cn.out # "not_found"

\* The value is one full placeholder, ${A} or ${B}.
SinglePlaceholder(value) ==
    Len(value) = 3 /\ value[1] = Open /\ value[2] \in {"A", "B"} /\ value[3] = Close

\* C16: once connect() has ended, by the body completing, an exception in
\* the body, a failed handshake, the timeout or a cancellation, the
\* subprocess it started is stopped and its streams are closed; a connect()
\* that ended without spawning has no subprocess.
C16_TornDownOnEveryExit ==
    cn.pc = "ended" =>
        /\ cn.proc \in {"none", "terminated"}
        /\ cn.streams \in {"none", "closed"}
        /\ cn.why \in {"normal", "body_exc", "handshake", "timeout", "cancelled"}
               => cn.proc = "terminated" /\ cn.streams = "closed"

\* C16 witness: connect() was cancelled after the spawn and has ended with
\* the subprocess stopped.
C16_Witness ==
    /\ cn.pc = "ended" /\ cn.why = "cancelled" /\ cn.out = "CancelledError"
    /\ cn.proc = "terminated" /\ cn.streams = "closed"

\* C17: a connect() waiting for the handshake never stays past the timeout:
\* the clock inside the scope never exceeds the timeout, at the timeout the
\* only thing that happens to the attempt is its cancellation, and the
\* attempt then ends stopped with a timeout error that names the server and
\* the command line.
C17Safe ==
    /\ cn.pc \in {"init", "body", "teardown"} => cn.elapsed <= ConnTicks
    /\ (cn.pc = "init" /\ cn.elapsed >= ConnTicks) => ENABLED ConnTimeout
    /\ (cn.pc = "ended" /\ cn.why = "timeout") =>
           /\ cn.out = "TimeoutError"
           /\ cn.err = <<"TimeoutError", cn.name, cn.args>>
           /\ cn.proc = "terminated"
    /\ (cn.pc = "ended" /\ cn.out = "returned") => cn.elapsed < ConnTicks

C17_TimeoutBoundsHandshake ==
    [][/\ C17Safe
       /\ (cn.pc = "init" /\ cn.elapsed >= ConnTicks) =>
              (cn'.pc = "teardown" /\ cn'.why = "timeout")]_vars

\* C17 witness: the handshake did not complete in time and connect() has
\* raised the timeout error.
C17_Witness ==
    /\ cn.pc = "ended" /\ cn.out = "TimeoutError" /\ cn.elapsed = ConnTicks
    /\ cn.err = <<"TimeoutError", "srv", cn.args>>

\* C18: connect() on a configured server fails with the missing-variable
\* error, with no subprocess spawned, exactly when some env entry's raw
\* value is one full placeholder whose variable is unset.
C18_MissingEnvIff ==
    (PastEnvCheck /\ cn.name \in Servers) =>
        /\ cn.out = "missing_env" <=>
               \E k \in 1..Len(cn.env) :
                   /\ SinglePlaceholder(cn.env[k])
                   /\ EnvGet(RequiredName(cn.env[k]), cn.amb) = "U"
        /\ cn.out = "missing_env" => cn.proc = "none"

\* C19: with an env value ${A}-${B}, A set and B unset, and no other entry,
\* connect() does not end with the missing-variable error; the value
\* resolves to the text of A followed by "-" and the attempt reaches the
\* spawn.
C19_PartialPlaceholderProceeds ==
    (/\ PastEnvCheck /\ cn.name \in Servers
     /\ cn.env = <<<<Open, "A", Close, "-", Open, "B", Close>>>>
     /\ cn.amb.A = "V" /\ cn.amb.B = "U") =>
        /\ cn.out # "missing_env"
        /\ cn.childEnv = <<<<"v", "-">>>>

\* C20: a subprocess that was spawned got the args with every placeholder
\* resolved as for env values, and none of the raw placeholders.
C20_ArgsResolved ==
    cn.proc # "none" =>
        /\ cn.childArgs = Resolved(cn.args, cn.amb)
        /\ \A k \in 1..Len(cn.childArgs) : Matches(cn.childArgs[k], 1) = <<>>

\* C21: whichever entry point is used, a name that is not configured makes
\* the call end at the lookup with the not-found error, whose text lists
\* all configured names; the env entries were not looked at and nothing
\* was spawned.
C21_UnknownServerFailsFirst ==
    cn.name \notin cn.servers =>
        /\ cn.pc \in {"idle", "ended"}
        /\ cn.pc = "ended" =>
               /\ cn.out = "not_found"
               /\ cn.err = <<"ValueError", cn.name, cn.servers>>
               /\ \A n \in cn.servers : n \in cn.err[3]
               /\ cn.childEnv = <<>> /\ cn.proc = "none" /\ cn.streams = "none"

\* C21 witness: call_tool on an unknown name, with two servers configured
\* and an env entry whose variable is missing, has ended with not-found.
C21_Witness ==
    /\ cn.op = "call_tool" /\ cn.servers = {"srv", "alt"} /\ cn.name = "other"
    /\ cn.env # <<>> /\ cn.amb.A = "U"
    /\ cn.pc = "ended" /\ cn.out = "not_found"

----------------------------------------------------------------------------
\* Claims about the wire format.

\* C22 as stated: from_bytes applied to the bytes to_bytes returned gives
\* the message back.
C22_RoundTripWhole ==
    wr.pc = "whole" => wr.whole = Returned(wr.msg)

\* C22: from_bytes applied to the bytes to_bytes returned, less their
\* HEADER_SIZE-byte length prefix, gives the message back; from_bytes on
\* all of the bytes raises.
C22_RoundTripBody ==
    /\ wr.pc = "body" => wr.body = Returned(wr.msg)
    /\ wr.pc = "whole" => wr.whole.err \in {"JSONDecodeError", "UnicodeDecodeError"}

\* C22 witness: a message with a non-ASCII action that needs escaping and a
\* non-ASCII payload entry has come back from its body bytes.
C22_Witness ==
    /\ wr.pc = "body" /\ wr.body = Returned(wr.msg)
    /\ wr.msg.action = S(<<233>>)
    /\ wr.msg.payload = O(<<<<<<233>>, S(<<34>>)>>>>)

\* read_message has returned or raised on frame k.
Read(k) == k <= Len(wr.got) /\ k <= Len(wr.frames)

\* C23: every serialized message on the stream is its body's length as four
\* big-endian bytes followed by that many bytes, and when read_message has
\* returned a message for frame k, however the bytes arrived, it is the
\* message that was sent and the reader stands exactly 4+L bytes further.
C23_FramingExact ==
    \A k \in 1..Len(wr.frames) :
        ~wr.frames[k].zero =>
            LET f == ToBytes(wr.frames[k].msg)
                L == Len(f) - HEADER_SIZE
                from == IF k = 1 THEN 0 ELSE wr.ends[k - 1] IN
            /\ SubSeq(f, 1, HEADER_SIZE) =
                   <<(L \div 16777216) % 256, (L \div 65536) % 256,
                     (L \div 256) % 256, L % 256>>
            /\ L = Len(Body(wr.frames[k].msg))
            /\ (Read(k) /\ wr.short = "none") =>
                   /\ wr.got[k] = Returned(wr.frames[k].msg)
                   /\ wr.ends[k] = from + HEADER_SIZE + L
            /\ (Read(k) /\ wr.got[k].err = "none") =>
                   /\ wr.got[k].msg = wr.frames[k].msg
                   /\ wr.ends[k] = from + HEADER_SIZE + L

\* C23 witness: two different messages on one stream have both been
\* returned and the stream is used up.
C23_Witness ==
    /\ Len(wr.frames) = 2 /\ Len(wr.got) = 2
    /\ wr.frames[1].msg # wr.frames[2].msg
    /\ wr.got[1] = Returned(wr.frames[1].msg)
    /\ wr.got[2] = Returned(wr.frames[2].msg)
    /\ wr.used = Len(wr.stream)

\* C24: when the peer has closed before the header or the body of the
\* frame being read was complete, read_message returns None and raises
\* nothing.
C24_ShortReadIsNoMessage ==
    /\ (wr.pc = "done" /\ wr.short # "none") =>
           /\ wr.eof
           /\ wr.got[Len(wr.got)] = NoMessage
           /\ \A k \in 1..(Len(wr.got) - 1) : wr.got[k].err = "none"
    /\ (wr.eof /\ wr.pc = "header" /\ Avail < HEADER_SIZE) => ENABLED WireHeaderShort
    /\ (wr.eof /\ wr.pc = "body" /\ Avail < wr.len) => ENABLED WireBodyShort
    /\ (wr.eof /\ wr.pc = "done" /\ Len(wr.got) <= Len(wr.frames)
          /\ wr.sent < FrameEnd(wr.frames, Len(wr.got))) =>
           wr.got[Len(wr.got)] = NoMessage

\* C24 witness: the peer closed in the middle of a body and read_message
\* returned None.
C24_Witness ==
    /\ wr.pc = "done" /\ wr.short = "body" /\ wr.len > 0
    /\ Len(wr.got) = 1 /\ wr.got[1] = NoMessage
    /\ wr.sent > HEADER_SIZE /\ wr.sent < FrameEnd(wr.frames, 1)

\* C25: a frame with length prefix 0 that read_message has read to its end
\* was returned as a message.
C25_ZeroLengthAccepted ==
    \A k \in 1..Len(wr.frames) :
        (wr.frames[k].zero /\ Read(k) /\ wr.sent >= FrameEnd(wr.frames, k)
           /\ wr.short = "none") =>
            wr.got[k].err = "none"

----------------------------------------------------------------------------
\* Claims about the outcome of a request.

\* What _send_request returned (line 92), NoResp if it raised.
ReturnedResponse == IF cl.out = "ok" THEN gh.resp ELSE NoResp

\* C26: a _send_request that read a response raises, with the text under
\* the payload's "error" key, when the response's action is "error"; for
\* any other action it returns the response as read.
C26_ErrorResponseRaises ==
    (Ended /\ gh.reads = 1 /\ gh.resp # NoResp) =>
        /\ gh.resp.action = "error" =>
               /\ cl.out = "daemon_error"
               /\ cl.op # "shutdown" => cl.pc = "raised"
               /\ gh.resp.payload # <<>> =>
                      RaisedText(cl.out, gh.resp) = gh.resp.payload[1][2]
               /\ ReturnedResponse = NoResp
        /\ gh.resp.action # "error" =>
               /\ cl.out = "ok" /\ cl.pc = "returned"
               /\ ReturnedResponse = gh.resp

\* C26 witness: call_tool got an error response with the text "boom" and
\* the request raised.
C26_Witness ==
    /\ cl.pc = "raised" /\ cl.op = "call_tool" /\ cl.out = "daemon_error"
    /\ gh.resp = [action |-> "error", payload |-> <<<<"error", "boom">>>>]
    /\ RaisedText(cl.out, gh.resp) = "boom"

\* C27: when the daemon closed the connection without a complete response,
\* _send_request raises with the text "No response from daemon", a text no
\* error response and no failure to connect ends with.
C27_NoResponseIsDistinct ==
    Ended =>
        /\ gh.srv = "eof" =>
               /\ cl.out = "no_response"
               /\ cl.op # "shutdown" => cl.pc = "raised"
               /\ RaisedText(cl.out, gh.resp) = "No response from daemon"
        /\ (cl.out # "ok" /\ cl.out # "no_response") =>
               RaisedText(cl.out, gh.resp) # RaisedText("no_response", NoResp)
        /\ cl.out = "no_response" => (gh.srv = "eof" /\ gh.opens = 1 /\ gh.resp = NoResp)

\* C27 witness: a status request was sent, the daemon closed without an
\* answer, and the request raised.
C27_Witness ==
    /\ cl.pc = "raised" /\ cl.op = "status" /\ cl.out = "no_response"
    /\ gh.sent /\ gh.srv = "eof"

\* C28: shutdown() never ends by raising, whatever its request ended with.
C28_ShutdownNeverRaises ==
    cl.op = "shutdown" =>
        /\ cl.pc # "raised"
        /\ (Ended /\ cl.out # "ok") => cl.pc = "returned"

\* C28 witness: shutdown() has returned after the daemon failed to start.
C28_Witness ==
    /\ cl.op = "shutdown" /\ cl.pc = "returned"
    /\ cl.out \in StartFailures

\* C29: the daemon started by _start_daemon has MCPL_SESSION_ID equal to
\* the client's session id in its environment, and the endpoint it resolves
\* is the endpoint the client polls, whatever the ambient environment held
\* and whatever id the daemon would derive for itself.
C29_DaemonSharesEndpoint ==
    LET sid == SessionIdOf(sp.ambient, sp.cderived) IN
    /\ sp.pc = "spawned" =>
           /\ sp.child.env.sid = sid
           /\ sp.child.env.rest = sp.ambient.rest
           /\ sp.child.out = EndpointOf(sid).log
    /\ sp.dend # <<>> => sp.dend = EndpointOf(sid)
    /\ (sp.dend # <<>> /\ sp.cend # <<>>) => sp.dend = sp.cend

\* C29 witness: nothing was forced in the ambient environment, the daemon
\* would derive another id than the client, and both have resolved the
\* client's endpoint.
C29_Witness ==
    /\ sp.ambient.sid = "unset" /\ sp.cderived # sp.dderived
    /\ sp.dend # <<>> /\ sp.dend = sp.cend
    /\ sp.dend = EndpointOf(sp.cderived)

----------------------------------------------------------------------------
\* Claims about the Windows transport.

\* UnixIPCServer has served connection 1 with the handler doing what the
\* handler of the pipe server does.
UnixServedLike(will) ==
    /\ sclosed[1] /\ nHandled[1] = 1
    /\ IF will = HandlerReturns THEN path[1] = "responded"
       ELSE path[1] = "handler_error" /\ hexc[1] = will

\* C30: once both servers have served the request and closed, the client
\* of the pipe server has been sent exactly what the client of
\* UnixIPCServer has been sent, and then sees the end of the stream.
C30_PipeEquivalentToUnix ==
    (pp.pc = "closed" /\ pp.chunks = <<>> /\ UnixServedLike(pp.will)) =>
        /\ pp.s2c = s2c[1]
        /\ Len(pp.seen) = Len(pp.s2c) + 1 => pp.seen = Append(s2c[1], "eof")

----------------------------------------------------------------------------
\* Claims about the tool cache.

\* C31: a refresh(force=false) entered with a valid cache calls no server,
\* leaves the index file and the metadata file as they were and returns the
\* list held in the index file.
C31_ValidCacheUntouched ==
    (tc.pc = "done" /\ ~tc.force /\ tc.valid) =>
        /\ tc.calls = 0
        /\ \A s \in CacheServers : tc.res[s] = NotAsked
        /\ tc.index = tc.index0
        /\ tc.meta = tc.meta0
        /\ tc.out = "returned"
        /\ tc.tools = LoadTools(tc.index0)

\* A refresh(force=false) of a valid cache has returned a stored list.
C31_Witness ==
    tc.pc = "done" /\ ~tc.force /\ tc.valid /\ tc.tools = CacheTools

\* C32: a refresh() that goes to the servers calls every one of them; with
\* some but not all of them failing it returns the tools of the servers that
\* answered and raises nothing, and with all of them failing it raises
\* 'Failed to connect to any servers'.
C32_PartialFailureTolerated ==
    (tc.pc = "done" /\ (tc.force \/ ~tc.valid)) =>
        LET k == Cardinality({s \in CacheServers : tc.res[s].st = "raised"}) IN
        /\ tc.calls = NumCacheServers
        /\ \A s \in CacheServers : tc.res[s] # NotAsked
        /\ (0 < k /\ k < NumCacheServers) =>
              /\ tc.out = "returned"
              /\ tc.tools = {t \in CacheTools : t \in tc.res[t[1]].tools}
        /\ (k = NumCacheServers) => tc.out = "Failed to connect to any servers"

\* One server failed after another had answered with its tool, and the
\* refresh returned.
C32_Witness ==
    /\ tc.pc = "done" /\ tc.force
    /\ tc.res[1].st = "ok" /\ tc.res[1].tools # {}
    /\ tc.res[NumCacheServers].st = "raised"
    /\ tc.out = "returned"

\* C33: is_cache_valid() answers true exactly when the metadata file exists
\* and parses, its age is at most the ttl and the config mtime it holds is
\* the config file's current one; once the config file's mtime has changed,
\* the answer is false whatever the age.
C33_ValidityIff ==
    [][(tc.pc = "idle" /\ tc'.pc = "checked") =>
          /\ tc'.valid <=> /\ tc.meta.st = "ok"
                           /\ tc.now - tc.meta.updated <= TtlHours
                           /\ tc.meta.mtime = tc.mtime
          /\ tc.touched => ~tc'.valid]_vars

\* The config file changed after the metadata was written, and the check
\* made within the ttl answered false.
C33_Witness ==
    /\ tc.pc = "checked" /\ ~tc.valid /\ tc.touched
    /\ tc.meta.st = "ok" /\ tc.meta.mtime # tc.mtime
    /\ tc.now - tc.meta.updated <= TtlHours

----------------------------------------------------------------------------
\* Claims about the socket path in start() and stop().

\* C34: start() removes an existing socket path only when no live listener is
\* behind it: a daemon whose probe of a live listener timed out has not
\* removed the file and does not come to listen at the path.
C34_LiveListenerKept ==
    \A d \in Daemons :
        probeRes[d] = "timeout" => (~unlinked[d] /\ spc[d] # "listening")

\* C37: stop() removes the socket file only if its instance bound it: a stop()
\* on an instance that never started, or whose start() raised, leaves the
\* socket file of a live daemon at the path.
C37_StopKeepsForeignSocket ==
    [][\A d \in Daemons :
          (/\ spc[d] \in {"new", "conflict", "failed"} /\ spc'[d] = "stopped"
           /\ ListenerBehind(sockFile)) =>
              sockFile' = sockFile]_vars

----------------------------------------------------------------------------
\* Claims about the client's reachability check.

\* C35: whatever the daemon does between the steps of _is_daemon_running, the
\* client never removes a pid file whose content at that moment names a live
\* process.
C35_LivePidFileKept == ~gh.delLive

\* C36: with two clients starting a daemon each at an endpoint that had none,
\* at most one of the daemons is bound at any time, and the one that is bound
\* is the one behind the socket path, where both clients reach it.
C36_OneDaemonBound ==
    /\ Cardinality({d \in Daemons : listening[d]}) <= 1
    /\ \A d \in Daemons : listening[d] => sockFile = {d}

\* The positions of the client inside _is_daemon_running.
InIdr == {"idr_exists", "idr_read", "idr_alive", "idr_unlink", "idr_connect", "idr_close"}

\* C39: a step of _is_daemon_running never changes the socket file; it
\* changes the pid file only by removing it after the text read from it
\* parsed to the pid of a process found dead; and when it returns, no
\* connection opened for the probe is left open.
C39_ProbeLeavesEndpoint ==
    [][(cl.pc \in InIdr /\ cl' # cl) =>
          /\ sockFile' = sockFile
          /\ pidFile' # pidFile =>
                /\ cl.pc = "idr_unlink" /\ pidFile' = {}
                /\ ParsePid(cl.text).ok /\ gh.deadRead
          /\ cl'.pc \notin InIdr => ~gh'.probeOpen]_vars

\* _is_daemon_running has returned True: a live daemon's pid file was read,
\* the probe connection was opened and closed, and both files are in place.
C39_Witness ==
    /\ cl.pc \in {"ensure_first", "poll_result"} /\ cl.idr
    /\ gh.tConn = "T" /\ ~gh.probeOpen
    /\ pidFile # {} /\ sockFile # {}

----------------------------------------------------------------------------
\* Claims about the time a scope and a request may take.

\* C38: the connection timeout bounds the handshake only: once the session
\* has been yielded, no step of the scope ends it with the timeout error.
C38_BodyNotTimed ==
    [][cn.pc = "body" => ~(cn'.pc = "teardown" /\ cn'.why = "timeout")]_vars

\* C40: once the client is connected, a request whose daemon has written its
\* response or closed the connection ends: _send_request returns or raises,
\* and a connection closed without a response ends it with 'No response'.
C40_RequestEnds ==
    /\ (cl.rq = "open" /\ reqSrv \in {"result", "error", "eof", "reset"}) ~> Ended
    /\ []((cl.pc = "finally" /\ gh.srv = "eof") => cl.out = "no_response")

\* The daemon died with the request unanswered and the client has raised
\* 'No response from daemon'.
C40_Witness ==
    /\ cl.pc = "raised" /\ cl.out = "no_response" /\ gh.srv = "eof"
    /\ (\E d \in Children : dstate[d] = "dead") /\ cl.rq = "closed"

====
